---- MODULE Spec2Model ----
(***************************************************************************)
(* Invoice extraction and PO-matching engine of the PO request app         *)
(* (src/app.py): process_bulk_pdf drives extract_invoice_data over the     *)
(* pages of one uploaded batch, groups the matched pages by invoice number *)
(* and records one match per group in po_requests.                         *)
(*                                                                         *)
(* Text is a sequence of one-character strings.  The code's regular        *)
(* expressions with capture groups are represented by what re.search /     *)
(* re.finditer return on each catalogue text (the fields of PageTexts);    *)
(* everything the code does with the captures, and every string operation  *)
(* that is not a capture regex, is computed here as the code computes it.  *)
(***************************************************************************)
EXTENDS Integers, Sequences, FiniteSets, TLC

(***************************************************************************)
(* Characters and the str methods the engine uses                          *)
(***************************************************************************)
LowerChars == <<"a","b","c","d","e","f","g","h","i","j","k","l","m",
                "n","o","p","q","r","s","t","u","v","w","x","y","z">>

UpperChars == <<"A","B","C","D","E","F","G","H","I","J","K","L","M",
                "N","O","P","Q","R","S","T","U","V","W","X","Y","Z">>

DigitChars == <<"0","1","2","3","4","5","6","7","8","9">>

Range(s) == {s[i] : i \in DOMAIN s}

\* \s of the re module, restricted to the characters of the catalogue
IsSpace(c) == c \in {" ", "\n", "\t"}

IsDigit(c) == c \in Range(DigitChars)

\* \w of the re module: letters, digits and the underscore
IsWord(c) == c \in Range(LowerChars) \cup Range(UpperChars) \cup Range(DigitChars) \cup {"_"}

UpperChar(c) ==
    IF c \in Range(LowerChars)
    THEN UpperChars[CHOOSE i \in DOMAIN LowerChars : LowerChars[i] = c]
    ELSE c

LowerChar(c) ==
    IF c \in Range(UpperChars)
    THEN LowerChars[CHOOSE i \in DOMAIN UpperChars : UpperChars[i] = c]
    ELSE c

\* str.upper()
str_upper(s) == [i \in 1..Len(s) |-> UpperChar(s[i])]

\* str.lower()
str_lower(s) == [i \in 1..Len(s) |-> LowerChar(s[i])]

\* s[a:b] of Python for 0 <= a, with b clipped to len(s)
Slice(s, a, b) ==
    LET hi == IF b > Len(s) THEN Len(s) ELSE b
    IN  IF a >= hi THEN << >> ELSE SubSeq(s, a + 1, hi)

\* str.replace(c, '') for a one-character c
RemoveAll(s, c) == SelectSeq(s, LAMBDA x : x # c)

\* str.strip()
str_strip(s) ==
    IF \A i \in DOMAIN s : IsSpace(s[i]) THEN << >>
    ELSE LET first == CHOOSE i \in DOMAIN s :
                         ~IsSpace(s[i]) /\ \A k \in 1..(i - 1) : IsSpace(s[k])
             last  == CHOOSE i \in DOMAIN s :
                         ~IsSpace(s[i]) /\ \A k \in (i + 1)..Len(s) : IsSpace(s[k])
         IN  SubSeq(s, first, last)

\* sub occurs in s at 0-based offset p
OccursAt(s, sub, p) ==
    /\ p >= 0
    /\ p + Len(sub) <= Len(s)
    /\ \A k \in 1..Len(sub) : s[p + k] = sub[k]

\* sub in s
Contains(s, sub) == \E p \in 0..Len(s) : OccursAt(s, sub, p)

\* str.find(sub): the lowest 0-based offset, -1 when absent
str_find(s, sub) ==
    IF Contains(s, sub)
    THEN CHOOSE p \in 0..Len(s) :
            OccursAt(s, sub, p) /\ \A q \in 0..(p - 1) : ~OccursAt(s, sub, q)
    ELSE -1

\* the maximal runs of the characters of s marked in keep, in order
Runs(s, keep) ==
    LET indices == [i \in 1..Len(s) |-> i]
        starts  == SelectSeq(indices, LAMBDA i : keep[i] /\ (i = 1 \/ ~keep[i - 1]))
        ends    == SelectSeq(indices, LAMBDA i : keep[i] /\ (i = Len(s) \/ ~keep[i + 1]))
    IN  [k \in 1..Len(starts) |-> SubSeq(s, starts[k], ends[k])]

\* str.split(): the maximal runs of non-whitespace characters
str_split(s) == Runs(s, [i \in 1..Len(s) |-> ~IsSpace(s[i])])

RECURSIVE Concat(_)
\* ''.join(words)
Concat(ws) == IF ws = << >> THEN << >> ELSE Head(ws) \o Concat(Tail(ws))

RECURSIVE JoinSpace(_)
\* ' '.join(words)
JoinSpace(ws) ==
    IF ws = << >> THEN << >>
    ELSE IF Len(ws) = 1 THEN Head(ws)
         ELSE Head(ws) \o <<" ">> \o JoinSpace(Tail(ws))

DigitVal(c) == (CHOOSE i \in DOMAIN DigitChars : DigitChars[i] = c) - 1

\* int() accepts the string: decimal digits, surrounding whitespace ignored
IsIntLiteral(s) ==
    LET t == str_strip(s)
    IN  t # << >> /\ \A i \in DOMAIN t : IsDigit(t[i])

RECURSIVE DigitsToInt(_, _)
DigitsToInt(s, acc) ==
    IF s = << >> THEN acc ELSE DigitsToInt(Tail(s), acc * 10 + DigitVal(Head(s)))

\* int(s) for a string int() accepts
StrToInt(s) == DigitsToInt(str_strip(s), 0)

RECURSIVE IntToStr(_)
\* str(n) for n >= 0
IntToStr(n) ==
    IF n < 10 THEN <<DigitChars[n + 1]>>
    ELSE IntToStr(n \div 10) \o <<DigitChars[(n % 10) + 1]>>

(***************************************************************************)
(* Fuzzy text primitives.  A score is the exact fraction num/den of the    *)
(* float the code computes; scores are compared by cross-multiplication.   *)
(***************************************************************************)
Score(n, d) == [num |-> n, den |-> d]

ScoreGE(a, b) == a.num * b.den >= b.num * a.den

ScoreGT(a, b) == a.num * b.den > b.num * a.den

\* re.sub(r'\s+', ' ', text): every run of whitespace becomes one space
CollapseSpaces(s) ==
    LET indices == [i \in 1..Len(s) |-> i]
        kept    == SelectSeq(indices, LAMBDA i : ~IsSpace(s[i]) \/ i = 1 \/ ~IsSpace(s[i - 1]))
    IN  [k \in 1..Len(kept) |-> IF IsSpace(s[kept[k]]) THEN " " ELSE s[kept[k]]]

\* re.sub(r'[^\w\s]', '', text)
RemovePunctuation(s) == SelectSeq(s, LAMBDA c : IsWord(c) \/ IsSpace(c))

normalize_text_for_matching(text) ==
    IF text = << >> THEN << >>
    ELSE str_strip(RemovePunctuation(CollapseSpaces(str_upper(text))))

\* min(insertions, deletions): the substitution is not considered
Min3NoSubstitution(a, b, c) == IF a <= b THEN a ELSE b

\* min(insertions, deletions, substitutions)
Min3(a, b, c) == IF a <= b /\ a <= c THEN a ELSE IF b <= c THEN b ELSE c

RECURSIVE LevRow(_, _, _, _)
\* the inner loop over s2: current_row grows from [i + 1]; j is the 1-based index into s2
LevRow(c1, s2, previous_row, current_row) ==
    IF Len(current_row) > Len(s2) THEN current_row
    ELSE LET j             == Len(current_row)
             insertions    == previous_row[j + 1] + 1
             deletions     == current_row[j] + 1
             substitutions == previous_row[j] + (IF c1 # s2[j] THEN 1 ELSE 0)
         IN  LevRow(c1, s2, previous_row,
                    Append(current_row, Min3(insertions, deletions, substitutions)))

RECURSIVE LevRows(_, _, _, _)
\* the outer loop over s1
LevRows(s1, s2, previous_row, i) ==
    IF i > Len(s1) THEN previous_row
    ELSE LevRows(s1, s2, LevRow(s1[i], s2, previous_row, <<i>>), i + 1)

levenshtein_distance(a, b) ==
    LET s1 == IF Len(a) < Len(b) THEN b ELSE a
        s2 == IF Len(a) < Len(b) THEN a ELSE b
    IN  IF Len(s2) = 0 THEN Len(s1)
        ELSE LevRows(s1, s2, [k \in 1..(Len(s2) + 1) |-> k - 1], 1)[Len(s2) + 1]

\* 1.0 - distance / max_len, 0.0 when the distance reaches max_len
SimilarityOf(distance, max_len) ==
    IF distance >= max_len THEN Score(0, 1) ELSE Score(max_len - distance, max_len)

\* NoSpaceScore with the first string as the reference instead of the longer one
NoSpaceScoreByFirst(t1_no_space, t2_no_space) ==
    IF t1_no_space = t2_no_space THEN Score(98, 100)
    ELSE IF Len(t1_no_space) = 0 THEN Score(0, 1)
    ELSE SimilarityOf(levenshtein_distance(t1_no_space, t2_no_space), Len(t1_no_space))

\* the comparison of the strings with their spaces removed
NoSpaceScore(t1_no_space, t2_no_space) ==
    LET longer  == IF Len(t1_no_space) >= Len(t2_no_space) THEN t1_no_space ELSE t2_no_space
        shorter == IF Len(t1_no_space) >= Len(t2_no_space) THEN t2_no_space ELSE t1_no_space
    IN  IF t1_no_space = t2_no_space THEN Score(98, 100)
        ELSE IF Len(longer) = 0 THEN Score(0, 1)
        ELSE SimilarityOf(levenshtein_distance(shorter, longer), Len(longer))

\* the comparison of the normalized strings t1 and t2
NormalizedScore(t1, t2) ==
    IF t1 = << >> \/ t2 = << >> THEN Score(0, 1)
    ELSE IF t1 = t2 THEN Score(1, 1)
    ELSE NoSpaceScore(RemoveAll(t1, " "), RemoveAll(t2, " "))

fuzzy_match_score(text1, text2) ==
    IF text1 = << >> \/ text2 = << >> THEN Score(0, 1)
    ELSE NormalizedScore(normalize_text_for_matching(text1), normalize_text_for_matching(text2))

NotFound(best_score) == [found |-> FALSE, pos |-> -1, matched_text |-> << >>, score |-> best_score]

\* words[i:i + window_size] for every i
WindowsOfSize(words, window_size) ==
    IF window_size > Len(words) THEN << >>
    ELSE [k \in 1..(Len(words) - window_size + 1) |-> SubSeq(words, k, k + window_size - 1)]

\* the windows in loop order: window_size in 1..4 outermost
Windows(words) ==
    WindowsOfSize(words, 1) \o WindowsOfSize(words, 2) \o WindowsOfSize(words, 3)
        \o WindowsOfSize(words, 4)

\* abs(len(window_no_spaces) - len(job_no_spaces)) > max(3, len(job_no_spaces) * 0.3)
OutsideTolerance(window_no_spaces, job_len) ==
    LET diff == IF Len(window_no_spaces) >= job_len THEN Len(window_no_spaces) - job_len
                ELSE job_len - Len(window_no_spaces)
        tolerance10 == IF 30 >= job_len * 3 THEN 30 ELSE job_len * 3
    IN  diff * 10 > tolerance10

\* the score of one window, 0.0 for a window the loop skips
WindowScore(window_no_spaces, job_no_spaces) ==
    IF OutsideTolerance(window_no_spaces, Len(job_no_spaces)) THEN Score(0, 1)
    ELSE fuzzy_match_score(window_no_spaces, job_no_spaces)

\* the scores of the windows, in loop order
WindowScores(windows, job_no_spaces) ==
    [k \in 1..Len(windows) |-> WindowScore(Concat(windows[k]), job_no_spaces)] \o << >>

\* the first window, in loop order, of the highest score among the windows in improving
BestWindow(improving, scores) ==
    CHOOSE k \in improving :
        \A m \in improving :
            /\ ScoreGE(scores[k], scores[m])
            /\ (ScoreGE(scores[m], scores[k]) => k <= m)

\* best_score, best_match and best_pos after the loops
BestOf(windows, scores, best, text_upper) ==
    [score |-> scores[best], matched_text |-> JoinSpace(windows[best]),
     pos |-> str_find(text_upper, windows[best][1])]

\* the windows whose score replaces best_score: above 0.0 and at or above the threshold
Improving(scores, threshold) ==
    {k \in 1..Len(scores) : ScoreGT(scores[k], Score(0, 1)) /\ ScoreGE(scores[k], threshold)}

ScoredWindows(windows, scores, improving, text_upper) ==
    IF improving = {}
    THEN [score |-> Score(0, 1), matched_text |-> << >>, pos |-> -1]
    ELSE BestOf(windows, scores, BestWindow(improving, scores), text_upper)

RankWindows(windows, scores, text_upper, threshold) ==
    ScoredWindows(windows, scores, Improving(scores, threshold), text_upper)

ScanWindowList(windows, text_upper, job_no_spaces, threshold) ==
    RankWindows(windows, WindowScores(windows, job_no_spaces), text_upper, threshold)

\* the sliding window over the words of the text
ScanWindows(words, text_upper, job_no_spaces, threshold) ==
    ScanWindowList(Windows(words), text_upper, job_no_spaces, threshold)

\* the result of the sliding window against the threshold
WindowResult(best, threshold) ==
    IF ScoreGE(best.score, threshold)
    THEN [found |-> TRUE, pos |-> best.pos, matched_text |-> best.matched_text,
          score |-> best.score]
    ELSE NotFound(best.score)

\* pos = text_upper.find(job_upper), else the offset in the text without spaces, else 0
ExactPosition(pos1, pos2) ==
    IF pos1 # -1 THEN pos1 ELSE IF pos2 >= 0 THEN pos2 ELSE 0

FindIn(text_upper, text_no_spaces, text_normalized, job_upper, job_no_spaces, job_normalized, threshold) ==
    IF Contains(text_normalized, job_normalized)
    THEN [found |-> TRUE,
          pos |-> ExactPosition(str_find(text_upper, job_upper),
                                str_find(text_no_spaces, job_no_spaces)),
          matched_text |-> job_normalized, score |-> Score(1, 1)]
    ELSE IF Contains(text_no_spaces, job_no_spaces)
    THEN [found |-> TRUE, pos |-> str_find(text_no_spaces, job_no_spaces),
          matched_text |-> job_no_spaces, score |-> Score(98, 100)]
    ELSE WindowResult(ScanWindows(str_split(text_upper), text_upper, job_no_spaces, threshold),
                      threshold)

\* job_upper.replace(' ', '').replace('-', '').replace('_', '')
NoSeparators(job_upper) == RemoveAll(RemoveAll(RemoveAll(job_upper, " "), "-"), "_")

FindUpper(text, text_upper, job_name, job_upper, threshold) ==
    FindIn(text_upper, RemoveAll(text_upper, " "), normalize_text_for_matching(text),
           job_upper, NoSeparators(job_upper), normalize_text_for_matching(job_name), threshold)

find_job_name_in_text(text, job_name, threshold) ==
    IF text = << >> \/ job_name = << >> THEN NotFound(Score(0, 1))
    ELSE FindUpper(text, str_upper(text), job_name, str_strip(str_upper(job_name)), threshold)

(***************************************************************************)
(* The catalogue of page texts.  Each entry holds the text and, for every  *)
(* capture regex of extract_invoice_data, what the regex returns on it:    *)
(*   inv_primary[i]   group(1) of re.search for customer_invoice_patterns  *)
(*   inv_fallback[i]  group(1) of re.search for order_patterns             *)
(*   headers          the header_patterns found, in list order, each with  *)
(*                    the numbers number_patterns capture on the header's  *)
(*                    line and the next line, in the order the loops test  *)
(*   po_caps          the captures of po_patterns, in the order tested     *)
(*   cost_caps[i]     all captures of cost_patterns[i], in text order      *)
(* A search without match is the empty sequence.                           *)
(***************************************************************************)
\* ''
EmptyPage ==
    [text |-> <<>>,
     inv_primary |-> <<<<>>, <<>>>>,
     inv_fallback |-> <<<<>>, <<>>, <<>>, <<>>, <<>>, <<>>, <<>>, <<>>, <<>>, <<>>, <<>>, <<>>, <<>>>>,
     headers |-> <<>>,
     po_caps |-> <<>>,
     cost_caps |-> <<<<>>, <<>>, <<>>>>]

\* 'Thank you'
NoInvoicePage ==
    [text |-> <<"T","h","a","n","k"," ","y","o","u">>,
     inv_primary |-> <<<<>>, <<>>>>,
     inv_fallback |-> <<<<>>, <<>>, <<>>, <<>>, <<>>, <<>>, <<>>, <<>>, <<>>, <<>>, <<>>, <<>>, <<>>>>,
     headers |-> <<>>,
     po_caps |-> <<>>,
     cost_caps |-> <<<<>>, <<>>, <<>>>>]

\* 'INVOICE # 784512\nPO Number: 1012 SOMERVILLE\nTOTAL: $10.00'
TablePage ==
    [text |-> <<"I","N","V","O","I","C","E"," ","#"," ","7","8","4","5","1","2","\n","P","O"," ","N","u","m","b","e","r",":"," ","1","0","1","2"," ","S","O","M","E","R","V","I","L","L","E","\n","T","O","T","A","L",":"," ","$","1","0",".","0","0">>,
     inv_primary |-> <<<<>>, <<<<"7","8","4","5","1","2">>>>>>,
     inv_fallback |-> <<<<<<"7","8","4","5","1","2">>>>, <<>>, <<>>, <<>>, <<>>, <<>>, <<>>, <<>>, <<>>, <<>>, <<>>, <<>>, <<>>>>,
     headers |-> <<[desc |-> "PO Number", caps |-> <<<<"1","0","1","2">>, <<"1","0","1","2">>, <<"1","0","1","2">>>>]>>,
     po_caps |-> <<<<"1","0","1","2">>, <<"1","0","1","2">>, <<"1","0","1","2">>>>,
     cost_caps |-> <<<<<<"1","0",".","0","0">>>>, <<>>, <<>>>>]

\* 'INVOICE # 784512\nPage 2 of 2'
ContinuationPage ==
    [text |-> <<"I","N","V","O","I","C","E"," ","#"," ","7","8","4","5","1","2","\n","P","a","g","e"," ","2"," ","o","f"," ","2">>,
     inv_primary |-> <<<<>>, <<<<"7","8","4","5","1","2">>>>>>,
     inv_fallback |-> <<<<<<"7","8","4","5","1","2">>>>, <<>>, <<>>, <<>>, <<>>, <<>>, <<>>, <<>>, <<>>, <<>>, <<>>, <<>>, <<>>>>,
     headers |-> <<>>,
     po_caps |-> <<>>,
     cost_caps |-> <<<<>>, <<>>, <<>>>>]

\* 'INVOICE # 784512\nReference 4016\n1012SOMERVILLE\nTOTAL 5.00'
MixedPage ==
    [text |-> <<"I","N","V","O","I","C","E"," ","#"," ","7","8","4","5","1","2","\n","R","e","f","e","r","e","n","c","e"," ","4","0","1","6","\n","1","0","1","2","S","O","M","E","R","V","I","L","L","E","\n","T","O","T","A","L"," ","5",".","0","0">>,
     inv_primary |-> <<<<>>, <<<<"7","8","4","5","1","2">>>>>>,
     inv_fallback |-> <<<<<<"7","8","4","5","1","2">>>>, <<>>, <<>>, <<>>, <<>>, <<>>, <<>>, <<<<"4","0","1","6">>>>, <<>>, <<>>, <<>>, <<>>, <<>>>>,
     headers |-> <<[desc |-> "Reference", caps |-> <<<<"4","0","1","6">>, <<"1","0","1","2">>>>]>>,
     po_caps |-> <<<<"1","0","1","2">>>>,
     cost_caps |-> <<<<<<"5",".","0","0">>>>, <<>>, <<>>>>]

\* 'INVOICE # 70007\n1012SOMERVILLE'
PatternPage ==
    [text |-> <<"I","N","V","O","I","C","E"," ","#"," ","7","0","0","0","7","\n","1","0","1","2","S","O","M","E","R","V","I","L","L","E">>,
     inv_primary |-> <<<<>>, <<<<"7","0","0","0","7">>>>>>,
     inv_fallback |-> <<<<<<"7","0","0","0","7">>>>, <<>>, <<>>, <<>>, <<>>, <<>>, <<>>, <<>>, <<>>, <<>>, <<>>, <<>>, <<>>>>,
     headers |-> <<>>,
     po_caps |-> <<<<"1","0","1","2">>>>,
     cost_caps |-> <<<<>>, <<>>, <<>>>>]

\* 'Invoice No: FM10979-3\nShip to Herons Glen ref 4016'
DirectPage ==
    [text |-> <<"I","n","v","o","i","c","e"," ","N","o",":"," ","F","M","1","0","9","7","9","-","3","\n","S","h","i","p"," ","t","o"," ","H","e","r","o","n","s"," ","G","l","e","n"," ","r","e","f"," ","4","0","1","6">>,
     inv_primary |-> <<<<>>, <<>>>>,
     inv_fallback |-> <<<<>>, <<<<"F","M","1","0","9","7","9","-","3">>>>, <<<<"F","M","1","0","9","7","9","-","3">>>>, <<>>, <<>>, <<>>, <<>>, <<>>, <<>>, <<>>, <<>>, <<>>, <<>>>>,
     headers |-> <<>>,
     po_caps |-> <<>>,
     cost_caps |-> <<<<>>, <<>>, <<>>>>]

\* 'INVOICE # 90001\nHERONZ GLEM 4016'
FuzzyPage ==
    [text |-> <<"I","N","V","O","I","C","E"," ","#"," ","9","0","0","0","1","\n","H","E","R","O","N","Z"," ","G","L","E","M"," ","4","0","1","6">>,
     inv_primary |-> <<<<>>, <<<<"9","0","0","0","1">>>>>>,
     inv_fallback |-> <<<<<<"9","0","0","0","1">>>>, <<>>, <<>>, <<>>, <<>>, <<>>, <<>>, <<>>, <<>>, <<>>, <<>>, <<>>, <<>>>>,
     headers |-> <<>>,
     po_caps |-> <<>>,
     cost_caps |-> <<<<>>, <<>>, <<>>>>]

PageTexts == <<EmptyPage, NoInvoicePage, TablePage, ContinuationPage, MixedPage, PatternPage, DirectPage, FuzzyPage>>

(***************************************************************************)
(* STEP 1 and STEP 3 of extract_invoice_data: invoice number and cost      *)
(***************************************************************************)
None == << >>

FalsePositives == { <<"d","a","t","e">>, <<"t","i","m","e">>, <<"p","a","g","e">> }

RECURSIVE FirstPrimary(_, _)
\* the loop over customer_invoice_patterns: first search whose capture has >= 5 characters
FirstPrimary(searches, i) ==
    IF i > Len(searches) THEN None
    ELSE IF searches[i] # << >> /\ Len(str_strip(searches[i][1])) >= 5
         THEN str_strip(searches[i][1])
         ELSE FirstPrimary(searches, i + 1)

RECURSIVE FirstFallbackAnyLength(_, _)
\* FirstFallback without the test len(candidate) >= 5
FirstFallbackAnyLength(searches, i) ==
    IF i > Len(searches) THEN None
    ELSE IF /\ searches[i] # << >>
            /\ str_lower(str_strip(searches[i][1])) \notin FalsePositives
         THEN str_strip(searches[i][1])
         ELSE FirstFallbackAnyLength(searches, i + 1)

RECURSIVE FirstFallback(_, _)
\* the loop over order_patterns: short captures and date/time/page are skipped
FirstFallback(searches, i) ==
    IF i > Len(searches) THEN None
    ELSE IF /\ searches[i] # << >>
            /\ str_lower(str_strip(searches[i][1])) \notin FalsePositives
            /\ Len(str_strip(searches[i][1])) >= 5
         THEN str_strip(searches[i][1])
         ELSE FirstFallback(searches, i + 1)

find_invoice_number(page) ==
    LET primary == FirstPrimary(page.inv_primary, 1)
    IN  IF primary # None THEN primary ELSE FirstFallback(page.inv_fallback, 1)

DefaultCost == <<"0",".","0","0">>

\* f"{float(cost_str):.2f}" for a capture of [0-9,]+\.\d{2} with the commas removed
FormatCost(capture) ==
    LET cost_str == RemoveAll(capture, ",")
        dot      == Len(cost_str) - 2
        whole    == SubSeq(cost_str, 1, dot - 1)
    IN  IntToStr(DigitsToInt(whole, 0)) \o SubSeq(cost_str, dot, Len(cost_str))

RECURSIVE FirstCostFirstOccurrence(_, _)
\* FirstCost with matches[0] in place of matches[-1]
FirstCostFirstOccurrence(labels, i) ==
    IF i > Len(labels) THEN DefaultCost
    ELSE IF labels[i] # << >> THEN FormatCost(labels[i][1])
         ELSE FirstCostFirstOccurrence(labels, i + 1)

RECURSIVE FirstCost(_, _)
\* the loop over cost_patterns: the last match of the first label that matches
FirstCost(labels, i) ==
    IF i > Len(labels) THEN DefaultCost
    ELSE IF labels[i] # << >> THEN FormatCost(labels[i][Len(labels[i])])
         ELSE FirstCost(labels, i + 1)

find_total_cost(page) == FirstCost(page.cost_caps, 1)

(***************************************************************************)
(* The store's purchase orders and job registry used by the model          *)
(***************************************************************************)
JobSomerville == <<"S","o","m","e","r","v","i","l","l","e">>

JobHeronsGlen == <<"H","e","r","o","n","s"," ","G","l","e","n">>

JobService == <<"S","e","r","v","i","c","e">>

\* po_requests.id -> job_name of the purchase orders in the store
PoJobs == (1012 :> JobSomerville) @@ (2020 :> JobService) @@ (4016 :> JobHeronsGlen)

PoIds == DOMAIN PoJobs

\* jobs.job_name of the rows with active=1
ActiveJobs == <<JobSomerville, JobHeronsGlen, JobService>>

RECURSIVE SortedSeq(_)
\* the keys of po_map in the order the rows were fetched (ascending rowid)
SortedSeq(S) ==
    IF S = {} THEN << >>
    ELSE LET m == CHOOSE x \in S : \A y \in S : x <= y
         IN  <<m>> \o SortedSeq(S \ {m})

(***************************************************************************)
(* AI-assist: match_invoice_with_claude and its usage log                  *)
(***************************************************************************)
Chars_yes == <<"y","e","s">>

Chars_no == <<"n","o">>

Chars_none == <<"n","o","n","e">>

Chars_high == <<"h","i","g","h">>

Chars_medium == <<"m","e","d","i","u","m">>

Chars_low == <<"l","o","w">>

\* dict.get(key, default)
DictGet(d, key, default) == IF key \in DOMAIN d THEN d[key] ELSE default

\* {'high': 0.95, 'medium': 0.80, 'low': 0.60}.get(confidence.lower(), 0.5), in hundredths
confidence_score(confidence) ==
    LET c == str_lower(confidence)
    IN  IF c = Chars_high THEN 95
        ELSE IF c = Chars_medium THEN 80
        ELSE IF c = Chars_low THEN 60
        ELSE 50

\* the arguments of one call of log_claude_api_usage; cost_estimate in 1e-6 USD
LogCall(invoice_text, matched_po, matched_job, confidence, input_tokens, output_tokens, success) ==
    [invoice_text_preview |-> Slice(invoice_text, 0, 200),
     matched_po |-> matched_po, matched_job |-> matched_job, confidence |-> confidence,
     input_tokens |-> input_tokens, output_tokens |-> output_tokens,
     cost_estimate |-> input_tokens * 3 + output_tokens * 15,
     success |-> success]

\* NoMatch of a path that returns without calling log_claude_api_usage
NoMatchUnlogged(called, log_calls) ==
    [po |-> 0, job |-> None, confidence |-> 0, called |-> called, log_calls |-> << >>]

NoMatch(called, log_calls) ==
    [po |-> 0, job |-> None, confidence |-> 0, called |-> called, log_calls |-> log_calls]

\* match_invoice_with_claude reading the digits of a PO_NUMBER that carries a leading '#'
\* instead of rejecting it as invalid
match_invoice_lenient(invoice_text, active_jobs, pm, enabled, reply) ==
    IF ~enabled THEN NoMatch(FALSE, << >>)
    ELSE IF active_jobs = << >> \/ DOMAIN pm = {} THEN NoMatch(FALSE, << >>)
    ELSE IF reply.kind # "message"
         THEN NoMatch(TRUE, <<LogCall(invoice_text, 0, None, 0, 0, 0, FALSE)>>)
    ELSE LET result        == reply.result
             input_tokens  == reply.input_tokens
             output_tokens == reply.output_tokens
             matched       == str_lower(DictGet(result, "MATCHED", Chars_no)) = Chars_yes
             job_name      == DictGet(result, "JOB_NAME", Chars_none)
             po_number_str == SelectSeq(DictGet(result, "PO_NUMBER", Chars_none),
                                        LAMBDA c : c # "#")
             confidence    == DictGet(result, "CONFIDENCE", Chars_low)
         IN  IF ~matched \/ str_lower(job_name) = Chars_none \/ str_lower(po_number_str) = Chars_none
             THEN NoMatch(TRUE, <<LogCall(invoice_text, 0, None, 0, input_tokens, output_tokens, FALSE)>>)
             ELSE IF ~IsIntLiteral(po_number_str)
             THEN NoMatch(TRUE, <<LogCall(invoice_text, 0, job_name, 0, input_tokens, output_tokens, FALSE)>>)
             ELSE IF StrToInt(po_number_str) \notin DOMAIN pm
             THEN NoMatch(TRUE, <<LogCall(invoice_text, StrToInt(po_number_str), job_name, 0,
                                         input_tokens, output_tokens, FALSE)>>)
             ELSE [po |-> StrToInt(po_number_str), job |-> job_name,
                   confidence |-> confidence_score(confidence), called |-> TRUE,
                   log_calls |-> <<LogCall(invoice_text, StrToInt(po_number_str), job_name,
                                           confidence_score(confidence),
                                           input_tokens, output_tokens, TRUE)>>]

match_invoice_with_claude(invoice_text, active_jobs, pm, enabled, reply) ==
    IF ~enabled THEN NoMatch(FALSE, << >>)
    ELSE IF active_jobs = << >> \/ DOMAIN pm = {} THEN NoMatch(FALSE, << >>)
    ELSE IF reply.kind # "message"
         THEN NoMatch(TRUE, <<LogCall(invoice_text, 0, None, 0, 0, 0, FALSE)>>)
    ELSE LET result        == reply.result
             input_tokens  == reply.input_tokens
             output_tokens == reply.output_tokens
             matched       == str_lower(DictGet(result, "MATCHED", Chars_no)) = Chars_yes
             job_name      == DictGet(result, "JOB_NAME", Chars_none)
             po_number_str == DictGet(result, "PO_NUMBER", Chars_none)
             confidence    == DictGet(result, "CONFIDENCE", Chars_low)
         IN  IF ~matched \/ str_lower(job_name) = Chars_none \/ str_lower(po_number_str) = Chars_none
             THEN NoMatch(TRUE, <<LogCall(invoice_text, 0, None, 0, input_tokens, output_tokens, FALSE)>>)
             ELSE IF ~IsIntLiteral(po_number_str)
             THEN NoMatch(TRUE, <<LogCall(invoice_text, 0, job_name, 0, input_tokens, output_tokens, FALSE)>>)
             ELSE IF StrToInt(po_number_str) \notin DOMAIN pm
             THEN NoMatch(TRUE, <<LogCall(invoice_text, StrToInt(po_number_str), job_name, 0,
                                         input_tokens, output_tokens, FALSE)>>)
             ELSE [po |-> StrToInt(po_number_str), job |-> job_name,
                   confidence |-> confidence_score(confidence), called |-> TRUE,
                   log_calls |-> <<LogCall(invoice_text, StrToInt(po_number_str), job_name,
                                           confidence_score(confidence),
                                           input_tokens, output_tokens, TRUE)>>]

(***************************************************************************)
(* STEP 2 of extract_invoice_data: the matching chain.  Each strategy      *)
(* takes and returns cur = [po_number, match_method]; po_number 0 is the   *)
(* falsy "no PO yet" of the code.                                          *)
(***************************************************************************)
NoPo == [po_number |-> 0, match_method |-> "None"]

\* the threshold of "claude_po and confidence >= 0.6", in hundredths
ClaudeThreshold == 60

\* claude_step with "confidence > 0.6" in place of "confidence >= 0.6"
claude_step_strict(assist, pm, enabled, cur) ==
    IF DOMAIN pm # {} /\ enabled /\ assist.po # 0 /\ assist.confidence > ClaudeThreshold
    THEN [po_number |-> assist.po, match_method |-> "Claude AI"]
    ELSE cur

claude_step(assist, pm, enabled, cur) ==
    IF DOMAIN pm # {} /\ enabled
    THEN IF assist.po # 0 /\ assist.confidence >= ClaudeThreshold
         THEN [po_number |-> assist.po, match_method |-> "Claude AI"]
         ELSE cur
    ELSE cur

\* FirstEligible without the test "in po_map": the first capture wins
FirstCapture(caps, pm, i) == IF i > Len(caps) THEN 0 ELSE StrToInt(caps[i])

RECURSIVE FirstEligible(_, _, _)
\* the first capture, in test order, whose int() is a key of po_map; 0 when none
FirstEligible(caps, pm, i) ==
    IF i > Len(caps) THEN 0
    ELSE IF StrToInt(caps[i]) \in DOMAIN pm THEN StrToInt(caps[i])
         ELSE FirstEligible(caps, pm, i + 1)

RECURSIVE ScanHeaders(_, _, _)
\* the loop over header_patterns goes on to the next header until po_number is set
ScanHeaders(headers, pm, h) ==
    IF h > Len(headers) THEN 0
    ELSE LET candidate == FirstEligible(headers[h].caps, pm, 1)
         IN  IF candidate # 0 THEN candidate ELSE ScanHeaders(headers, pm, h + 1)

\* cur with the PO a strategy found, unless it found none
Resolved(cur, candidate, method) ==
    IF candidate # 0 THEN [po_number |-> candidate, match_method |-> method] ELSE cur

table_column_step(page, pm, cur) ==
    IF cur.po_number # 0 THEN cur
    ELSE Resolved(cur, ScanHeaders(page.headers, pm, 1), "Table Column")

\* pattern_match_step without the guard "if not po_number"
pattern_match_anyway(page, pm, cur) ==
    [po_number |-> FirstEligible(page.po_caps, pm, 1), match_method |-> "Pattern Match"]

pattern_match_step(page, pm, cur) ==
    IF cur.po_number # 0 THEN cur
    ELSE Resolved(cur, FirstEligible(page.po_caps, pm, 1), "Pattern Match")

\* str.replace(a, b) for one-character a and b
ReplaceChar(s, a, b) == [i \in 1..Len(s) |-> IF s[i] = a THEN b ELSE s[i]]

\* re.search(rf'{po_str}\s*{job_name_no_spaces}', text_upper); the job name holds no regex operator
ConcatFormat(text_upper, po_str, job_name_no_spaces) ==
    \E p \in 0..Len(text_upper) :
        /\ OccursAt(text_upper, po_str, p)
        /\ \E k \in 0..(Len(text_upper) - p - Len(po_str)) :
              /\ \A q \in 1..k : IsSpace(text_upper[p + Len(po_str) + q])
              /\ OccursAt(text_upper, job_name_no_spaces, p + Len(po_str) + k)

ContextLabels == { <<"P","O">>, <<"O","R","D","E","R">>, <<"J","O","B">> }

\* re.search(rf'(?:PO|Purchase\s*Order|Order|Job)[^0-9]*{po_str}', text, re.IGNORECASE);
\* a match of the Purchase Order alternative is also a match of the Order alternative
PoContext(text, po_str) ==
    LET u == str_upper(text)
    IN  \E label \in ContextLabels : \E p \in 0..Len(u) :
            /\ OccursAt(u, label, p)
            /\ \E e \in (p + Len(label))..Len(u) :
                  /\ OccursAt(u, po_str, e)
                  /\ \A q \in (p + Len(label) + 1)..e : ~IsDigit(u[q])

\* any(len(part) >= 3 and part in text_upper for part in job_parts)
JobPartFound(text_upper, job_name) ==
    LET job_parts == str_split(ReplaceChar(ReplaceChar(job_name, "-", " "), "_", " "))
    IN  \E i \in DOMAIN job_parts :
            Len(job_parts[i]) >= 3 /\ Contains(text_upper, job_parts[i])

RECURSIVE DirectLoop(_, _, _, _)
\* for po_id, po_info in po_map.items(): the first PO that qualifies wins
DirectLoop(text, pm, ids, i) ==
    IF i > Len(ids) THEN 0
    ELSE LET po_id              == ids[i]
             po_str             == IntToStr(po_id)
             text_upper         == str_upper(text)
             job_name           == str_upper(pm[po_id].job_name)
             job_name_no_spaces == RemoveAll(RemoveAll(RemoveAll(job_name, " "), "-"), "_")
         IN  IF /\ Contains(text, po_str)
                /\ \/ ConcatFormat(text_upper, po_str, job_name_no_spaces)
                   \/ JobPartFound(text_upper, job_name)
                   \/ PoContext(text, po_str)
             THEN po_id
             ELSE DirectLoop(text, pm, ids, i + 1)

direct_search_step(page, pm, cur) ==
    IF cur.po_number # 0 \/ DOMAIN pm = {} THEN cur
    ELSE Resolved(cur, DirectLoop(page.text, pm, SortedSeq(DOMAIN pm), 1), "Direct Search")

\* re.findall(r'\b(\d{3,5})\b', context): the maximal \w runs made of 3 to 5 digits
NumberTokens(context) ==
    SelectSeq(Runs(context, [i \in 1..Len(context) |-> IsWord(context[i])]),
              LAMBDA w : Len(w) >= 3 /\ Len(w) <= 5 /\ \A k \in DOMAIN w : IsDigit(w[k]))

\* threshold=0.75 of the windowed scan and of the job-name check
FuzzyThreshold == Score(75, 100)

\* threshold=0.70 of the broader scan
BroadThreshold == Score(70, 100)

RECURSIVE NearbyPo(_, _, _, _)
\* for num_str in number_matches: an eligible PO whose own job name matches job_name
NearbyPo(numbers, pm, job_name, i) ==
    IF i > Len(numbers) THEN 0
    ELSE LET candidate == StrToInt(numbers[i])
         IN  IF /\ candidate \in DOMAIN pm
                /\ ScoreGE(fuzzy_match_score(str_upper(pm[candidate].job_name), job_name),
                           FuzzyThreshold)
             THEN candidate
             ELSE NearbyPo(numbers, pm, job_name, i + 1)

\* text[max(0, pos - 100):min(len(text), pos + len(job_name) + 100)]
Nearby(text, pos, job_name) ==
    Slice(text, IF pos - 100 > 0 THEN pos - 100 ELSE 0,
          IF pos + Len(job_name) + 100 < Len(text) THEN pos + Len(job_name) + 100 ELSE Len(text))

\* the PO the numbers near a hit of job_name give, 0 when the job name is not found
NearHit(text, pm, job_name, hit) ==
    IF hit.found
    THEN NearbyPo(NumberTokens(Nearby(text, hit.pos, job_name)), pm, job_name, 1)
    ELSE 0

RECURSIVE WindowScan(_, _, _, _)
RECURSIVE WindowScanFrom(_, _, _, _, _)
\* the loop goes on to the next job name while no PO is set
WindowScanFrom(text, pm, active_jobs, j, candidate) ==
    IF candidate # 0 THEN candidate ELSE WindowScan(text, pm, active_jobs, j + 1)

\* Method 4: for job_name in active_jobs, numbers within 100 characters of the hit
WindowScan(text, pm, active_jobs, j) ==
    IF j > Len(active_jobs) THEN 0
    ELSE WindowScanFrom(text, pm, active_jobs, j,
             NearHit(text, pm, active_jobs[j],
                     find_job_name_in_text(text, active_jobs[j], FuzzyThreshold)))

RECURSIVE FirstInText(_, _, _)
\* for po_id in matching_pos: if str(po_id) in text
FirstInText(text, matching_pos, i) ==
    IF i > Len(matching_pos) THEN 0
    ELSE IF Contains(text, IntToStr(matching_pos[i])) THEN matching_pos[i]
         ELSE FirstInText(text, matching_pos, i + 1)

\* MatchingPos without the comparison of the job names: every eligible PO
MatchingPosAll(pm, job_name) == SortedSeq(DOMAIN pm)

\* the eligible POs whose job name matches job_name, in the order of po_map
MatchingPos(pm, job_name) ==
    SelectSeq(SortedSeq(DOMAIN pm),
              LAMBDA id : ScoreGE(fuzzy_match_score(pm[id].job_name, job_name), FuzzyThreshold))

RECURSIVE BroadScan(_, _, _, _)
RECURSIVE BroadScanFrom(_, _, _, _, _)
BroadScanFrom(text, pm, active_jobs, j, candidate) ==
    IF candidate # 0 THEN candidate ELSE BroadScan(text, pm, active_jobs, j + 1)

\* Method 4b: job name anywhere, then any PO of that job whose id occurs in the text
BroadScan(text, pm, active_jobs, j) ==
    IF j > Len(active_jobs) THEN 0
    ELSE BroadScanFrom(text, pm, active_jobs, j,
             IF find_job_name_in_text(text, active_jobs[j], BroadThreshold).found
             THEN FirstInText(text, MatchingPos(pm, active_jobs[j]), 1)
             ELSE 0)

\* the windowed scan, and the broader scan only if the windowed scan set no PO
FuzzyScan(text, pm, active_jobs, windowed) ==
    IF windowed # 0 THEN windowed ELSE BroadScan(text, pm, active_jobs, 1)

fuzzy_scan_step(page, pm, active_jobs, cur) ==
    IF cur.po_number # 0 \/ DOMAIN pm = {} THEN cur
    ELSE Resolved(cur, FuzzyScan(page.text, pm, active_jobs,
                                 WindowScan(page.text, pm, active_jobs, 1)),
                  "Fuzzy Match")

(***************************************************************************)
(* extract_invoice_data                                                    *)
(***************************************************************************)
NoCall == NoMatch(FALSE, << >>)

\* assist_call without the returns for an empty text and for a page without an invoice
\* number: the assist step comes first
assist_call_first(page, pm, enabled, active_jobs, reply) ==
    IF DOMAIN pm # {} /\ enabled
    THEN match_invoice_with_claude(page.text, active_jobs, pm, enabled, reply)
    ELSE NoCall

\* the assist call extract_invoice_data makes for the page, if it makes one
assist_call(page, pm, enabled, active_jobs, reply) ==
    IF page.text = << >> \/ find_invoice_number(page) = None THEN NoCall
    ELSE IF DOMAIN pm # {} /\ enabled
         THEN match_invoice_with_claude(page.text, active_jobs, pm, enabled, reply)
         ELSE NoCall

\* PoMapOf without "invoice_filename IS NULL" in the WHERE clause: every approved PO
PoMapOfApproved(rows) ==
    [id \in {i \in DOMAIN rows : rows[i].status = "approved"}
        |-> [id |-> id, job_name |-> rows[id].job_name, estimated_cost |-> rows[id].estimated_cost]]

\* the eligible-PO map process_bulk_pdf builds from the rows of po_requests
PoMapOf(rows) ==
    [id \in {i \in DOMAIN rows : rows[i].status = "approved" /\ rows[i].invoice_filename = None}
        |-> [id |-> id, job_name |-> rows[id].job_name, estimated_cost |-> rows[id].estimated_cost]]

\* a row of po_requests: approved and waiting for its invoice, or approved with an invoice
\* entered by hand, or still pending
PoRow(id, state) ==
    [status |-> IF state = "pending" THEN "pending" ELSE "approved",
     job_name |-> PoJobs[id], estimated_cost |-> <<"1","0","0",".","0","0">>,
     invoice_filename |-> IF state = "invoiced" THEN <<"M","A","N","U","A","L","_","E","N","T","R","Y">> ELSE None,
     invoice_number |-> None, invoice_cost |-> None, match_method |-> "None"]

\* the stores a batch can start from: any of 1012 and 4016 is eligible, or 2020 alone
InitialStores ==
    { [id \in PoIds |-> PoRow(id, IF id \in E THEN "waiting"
                                  ELSE IF id = 2020 THEN "pending" ELSE "invoiced")]
      : E \in SUBSET {1012, 4016} \cup {{2020}} }

\* the job lists get_active_job_names can return: the registry, or [] on a database error
JobLists == {ActiveJobs, << >>}

\* Methods 1 to 4 after the assist step, in the order of the code
fallback_steps(page, pm, active_jobs, cur) ==
    fuzzy_scan_step(page, pm, active_jobs,
      direct_search_step(page, pm,
        pattern_match_step(page, pm,
          table_column_step(page, pm, cur))))

\* the values of cur the assist step can leave for an eligible map
CurAfterAssist(pm) == {NoPo} \cup {[po_number |-> id, match_method |-> "Claude AI"] : id \in DOMAIN pm}

\* the invoices delete_invoice removes between two batches
MaxDeletions == 1

\* the eligible maps a batch can read: those of the stores a first batch starts from, and
\* those a later batch reads, in which the POs whose invoice was deleted are eligible again
TabulatedMaps ==
    UNION { { PoMapOf([id \in PoIds |-> IF id \in D THEN PoRow(id, "waiting") ELSE rows[id]])
              : D \in {d \in SUBSET {i \in PoIds : rows[i].status = "approved"} :
                         Cardinality(d) <= MaxDeletions} }
            : rows \in InitialStores }

\* fallback_steps tabulated over the catalogue, the eligible maps, the job lists and the
\* values of cur the assist step can leave, so that it is computed once per combination
fallback_chain ==
    UNION { { [k |-> k, pm |-> pm, active_jobs |-> aj, cur |-> cur,
               out |-> fallback_steps(PageTexts[k], pm, aj, cur)] : cur \in CurAfterAssist(pm) }
            : k \in DOMAIN PageTexts, pm \in TabulatedMaps, aj \in JobLists }

\* cur after the five strategies, run in the order of the code; the strategies read the
\* id and the job name of an eligible PO, which the id determines, never its cost; a
\* combination outside the table is computed in place
matching_chain(k, pm, enabled, active_jobs, assist) ==
    IF \E t \in fallback_chain :
          /\ t.k = k
          /\ DOMAIN t.pm = DOMAIN pm
          /\ t.active_jobs = active_jobs
          /\ t.cur = claude_step(assist, pm, enabled, NoPo)
    THEN (CHOOSE t \in fallback_chain :
            /\ t.k = k
            /\ DOMAIN t.pm = DOMAIN pm
            /\ t.active_jobs = active_jobs
            /\ t.cur = claude_step(assist, pm, enabled, NoPo)).out
    ELSE fallback_steps(PageTexts[k], pm, active_jobs, claude_step(assist, pm, enabled, NoPo))

NoData ==
    [found |-> FALSE, error |-> FALSE, po_id |-> 0, invoice_number |-> None,
     cost |-> None, match_method |-> "None"]

\* lines 2577-2603: the dict returned for a page with an invoice number, with the
\* error flag when no strategy set po_number
InvoiceData(page, cur) ==
    [found |-> TRUE, error |-> cur.po_number = 0, po_id |-> cur.po_number,
     invoice_number |-> find_invoice_number(page), cost |-> find_total_cost(page),
     match_method |-> cur.match_method]

\* extract_invoice_data(text, pm) for the k-th catalogue text; reply is what the
\* assist service answers if it is called
extract_invoice_data(k, pm, enabled, active_jobs, reply) ==
    IF PageTexts[k].text = << >> THEN NoData
    ELSE IF find_invoice_number(PageTexts[k]) = None THEN NoData
    ELSE InvoiceData(PageTexts[k],
                     matching_chain(k, pm, enabled, active_jobs,
                                    assist_call(PageTexts[k], pm, enabled, active_jobs, reply)))

(***************************************************************************)
(* The assist service's answers.  A message carries the fields the reply   *)
(* parser finds (result) and the token usage; the other kinds are the      *)
(* exceptions client.messages.create raises.                               *)
(***************************************************************************)
Message(result) == [kind |-> "message", result |-> result, input_tokens |-> 900, output_tokens |-> 60]

Suggestion(job, po, confidence) ==
    Message([key \in {"MATCHED", "JOB_NAME", "PO_NUMBER", "CONFIDENCE"} |->
               CASE key = "MATCHED"    -> <<"Y","e","s">>
                 [] key = "JOB_NAME"   -> job
                 [] key = "PO_NUMBER"  -> po
                 [] key = "CONFIDENCE" -> confidence])

Replies ==
    { [kind |-> "APIError", result |-> << >>, input_tokens |-> 0, output_tokens |-> 0],
      [kind |-> "Exception", result |-> << >>, input_tokens |-> 0, output_tokens |-> 0],
      Message(<< >>),
      Suggestion(JobSomerville, <<"#","1","0","1","2">>, Chars_high),
      Suggestion(JobService, <<"2","0","2","0">>, Chars_high),
      Suggestion(JobSomerville, <<"1","0","1","2">>, <<"H","i","g","h">>),
      Suggestion(JobSomerville, <<"1","0","1","2">>, <<"u","n","s","u","r","e">>),
      Suggestion(JobHeronsGlen, <<"4","0","1","6">>, Chars_medium),
      Suggestion(JobHeronsGlen, <<"4","0","1","6">>, Chars_low) }

\* the assist service is not reached
NoReply == [kind |-> "none", result |-> << >>, input_tokens |-> 0, output_tokens |-> 0]

(***************************************************************************)
(* process_bulk_pdf                                                        *)
(***************************************************************************)
\* pages of one batch
MaxPages == 2

\* datetime.now().strftime('%Y%m%d_%H%M%S') of the upload
timestamp == <<"2","0","2","6","1","1","0","4","_","0","9","3","0","0","0">>

\* f"{po_id:04d}"
Pad4(n) ==
    LET digits == IntToStr(n)
    IN  IF Len(digits) >= 4 THEN digits
        ELSE [i \in 1..(4 - Len(digits)) |-> "0"] \o digits

\* format_po_number(po_id, job_name): "S" before the padded id of a Service job
format_po_number(po_id, job_name) ==
    IF job_name # << >> /\ str_lower(job_name) = <<"s","e","r","v","i","c","e">>
    THEN <<"S">> \o Pad4(po_id)
    ELSE Pad4(po_id)

Ext == <<".","p","d","f">>

\* f"PO{po_id:04d}_{timestamp}_INV{inv_num}.pdf"
MatchedFilenameAt(stamp, po_id, inv_num) ==
    <<"P","O">> \o Pad4(po_id) \o <<"_">> \o stamp \o <<"_","I","N","V">> \o inv_num \o Ext

MatchedFilename(po_id, inv_num) == MatchedFilenameAt(timestamp, po_id, inv_num)

\* f"ERROR_NO_PO_{timestamp}_page{page_num}_{invoice_number}.pdf"
ErrorFilenameAt(stamp, page_num, inv_num) ==
    <<"E","R","R","O","R","_","N","O","_","P","O","_">> \o stamp
        \o <<"_","p","a","g","e">> \o IntToStr(page_num) \o <<"_">> \o inv_num \o Ext

ErrorFilename(page_num, inv_num) == ErrorFilenameAt(timestamp, page_num, inv_num)

\* the unmatched filename without the page number
UnmatchedFilenameShared(page_num) ==
    <<"U","N","M","A","T","C","H","E","D","_">> \o timestamp \o Ext

\* f"UNMATCHED_{timestamp}_page{page_num}.pdf"
UnmatchedFilenameAt(stamp, page_num) ==
    <<"U","N","M","A","T","C","H","E","D","_">> \o stamp
        \o <<"_","p","a","g","e">> \o IntToStr(page_num) \o Ext

UnmatchedFilename(page_num) == UnmatchedFilenameAt(timestamp, page_num)

\* the timestamp of a second upload, made a second later
other_timestamp == <<"2","0","2","6","1","1","0","4","_","0","9","3","0","0","1">>

VARIABLES
    po_requests,      \* the committed rows of the po_requests table
    claude_api_log,   \* the rows of the claude_api_log table
    claude_enabled,   \* is_claude_matching_enabled()
    jobs,             \* get_active_job_names()
    service,          \* what the assist service answers to the calls of this batch
    log_writable,     \* the INSERT of log_claude_api_usage succeeds during this batch
    pc,               \* where the request is: "start", "pages", "save", "done" in
                      \* process_bulk_pdf, "returned" after bulk_upload_invoices
    pdf,              \* catalogue indices of the pages read so far, in document order
    po_map,           \* the eligible POs read at the start of the run
    invoice_groups,   \* the dict invoice_groups, in insertion order
    results,          \* the dict results
    uploads,          \* the files of UPLOAD_FOLDER written by the run
    updates,          \* UPDATE statements executed on the connection, not yet committed
    saved,            \* groups the save loop has gone through
    page_data,        \* what extract_invoice_data returned for each page
    assists,          \* what the assist service answered and match_invoice_with_claude
                      \* returned for each page
    api_calls,        \* calls of the assist service made by match_invoice_with_claude
    log_calls,        \* calls of log_claude_api_usage
    fault,            \* the write of an output document has raised during the run
    request,          \* bulk_upload_invoices: the temporary file, the calls of os.remove
                      \* and the response
    other,            \* process_bulk_pdf of a second upload, running in another thread
                      \* against the same store and upload folder
    fn                \* a call of one of the text functions: its arguments and its result

vars == <<po_requests, claude_api_log, claude_enabled, jobs, service, log_writable, pc, pdf, po_map, invoice_groups,
          results, uploads, updates, saved, page_data, assists, api_calls, log_calls,
          fault, request, other, fn>>

\* the second upload has not been made: stamp is the timestamp its names carry, deleted
\* the POs whose invoice delete_invoice has removed since the first batch
IdleRun ==
    [pc |-> "idle", po_map |-> << >>, pdf |-> << >>, updates |-> << >>, after |-> FALSE,
     stamp |-> other_timestamp, deleted |-> {}]

\* no text function is being called
NoApplication == [op |-> "none"]

\* bulk_upload_invoices has not returned
NoResponse == [returned |-> FALSE]

Init ==
    /\ po_requests \in InitialStores
    /\ claude_api_log = << >>
    /\ claude_enabled \in BOOLEAN
    /\ jobs \in JobLists
    /\ IF claude_enabled /\ jobs # << >> /\ DOMAIN PoMapOf(po_requests) # {}
       THEN service \in Replies /\ log_writable \in BOOLEAN
       ELSE service = NoReply /\ log_writable = TRUE
    /\ pc = "start"
    /\ pdf = << >>
    /\ po_map = << >>
    /\ invoice_groups = << >>
    /\ results = [success |-> TRUE, processed |-> 0, matched |-> 0, unmatched |-> << >>,
                  errors |-> << >>, details |-> << >>, message |-> "", error |-> "",
                  trace |-> ""]
    /\ uploads = {}
    /\ updates = << >>
    /\ saved = 0
    /\ page_data = << >>
    /\ assists = << >>
    /\ api_calls = 0
    /\ log_calls = 0
    /\ fault = FALSE
    /\ request = [temp_pdf |-> TRUE, removals |-> 0, response |-> NoResponse]
    /\ other = IdleRun
    /\ fn = NoApplication

\* with open(path, 'wb') as f: pdf_writer.write(f) -- a file of that name is replaced
WriteFile(files, name, pages) ==
    {f \in files : f.name # name} \cup {[name |-> name, pages |-> pages]}

\* the index of inv_num in invoice_groups, 0 when it is not a key
GroupIndex(groups, inv_num) ==
    IF \E g \in DOMAIN groups : groups[g].inv_num = inv_num
    THEN CHOOSE g \in DOMAIN groups : groups[g].inv_num = inv_num
    ELSE 0

\* AddToGroup without the test "inv_num not in invoice_groups": every page opens a group
AddToGroupAlways(groups, invoice_data, page_num) ==
    Append(groups, [inv_num |-> invoice_data.invoice_number,
                    pages |-> <<page_num - 1>>, data |-> invoice_data])

\* lines 2030-2038: the group of inv_num is created with the first page's data,
\* later pages only append their index
AddToGroup(groups, invoice_data, page_num) ==
    LET g == GroupIndex(groups, invoice_data.invoice_number)
    IN  IF g = 0
        THEN Append(groups, [inv_num |-> invoice_data.invoice_number,
                             pages |-> <<page_num - 1>>, data |-> invoice_data])
        ELSE [groups EXCEPT ![g].pages = Append(@, page_num - 1)]

\* lines 1986-2007: open the document and the database, read the eligible POs
ReadEligible ==
    /\ pc = "start"
    /\ po_map' = PoMapOf(po_requests)
    /\ pc' = "pages"
    /\ UNCHANGED <<po_requests, claude_api_log, claude_enabled, jobs, service, log_writable, pdf, invoice_groups,
                   results, uploads, updates, saved, page_data, assists, api_calls, log_calls>>
    /\ UNCHANGED <<fault, request, other, fn>>

\* log_claude_api_usage for the calls made on one page: the row is inserted, or the
\* exception of the INSERT is caught and printed
log_claude_api_usage(log, calls, writable) == IF writable THEN log \o calls ELSE log

\* the except clause of process_bulk_pdf: nothing is committed or removed
Failed(r) == [r EXCEPT !.success = FALSE, !.error = "exception", !.trace = "traceback"]

\* ErrorRecord that reports the default cost instead of the extracted one
ErrorRecordDefaultCost(page_num, invoice_data) ==
    [page |-> page_num, invoice_number |-> invoice_data.invoice_number,
     cost |-> DefaultCost, error |-> "NO MATCHING PO FOUND"]

\* lines 2050-2055: the entry of results['errors'] for a page without a PO
ErrorRecord(page_num, invoice_data) ==
    [page |-> page_num, invoice_number |-> invoice_data.invoice_number,
     cost |-> invoice_data.cost, error |-> "NO MATCHING PO FOUND"]

\* lines 2040-2057: the page without a PO is recorded in errors and written on its own
ErrorPage(page_num, invoice_data, counted, write_ok) ==
    /\ results' = IF write_ok
                  THEN [counted EXCEPT !.errors = Append(@, ErrorRecord(page_num, invoice_data))]
                  ELSE Failed([counted EXCEPT
                                  !.errors = Append(@, ErrorRecord(page_num, invoice_data))])
    /\ uploads' = IF write_ok
                  THEN WriteFile(uploads, ErrorFilename(page_num, invoice_data.invoice_number),
                                 <<page_num - 1>>)
                  ELSE uploads
    /\ pc' = IF write_ok THEN pc ELSE "done"
    /\ UNCHANGED invoice_groups

\* UnmatchedPage whose failing write removes the documents the run has written
UnmatchedPageRollback(page_num, counted, write_ok) ==
    /\ results' = IF write_ok
                  THEN [counted EXCEPT !.unmatched = Append(@,
                           [page |-> page_num, filename |-> UnmatchedFilename(page_num)])]
                  ELSE Failed(counted)
    /\ uploads' = IF write_ok
                  THEN WriteFile(uploads, UnmatchedFilename(page_num), <<page_num - 1>>)
                  ELSE {}
    /\ pc' = IF write_ok THEN pc ELSE "done"
    /\ UNCHANGED invoice_groups

\* lines 2059-2073: the page without an invoice number is written on its own and recorded
\* in unmatched
UnmatchedPage(page_num, counted, write_ok) ==
    /\ results' = IF write_ok
                  THEN [counted EXCEPT !.unmatched = Append(@,
                           [page |-> page_num, filename |-> UnmatchedFilename(page_num)])]
                  ELSE Failed(counted)
    /\ uploads' = IF write_ok
                  THEN WriteFile(uploads, UnmatchedFilename(page_num), <<page_num - 1>>)
                  ELSE uploads
    /\ pc' = IF write_ok THEN pc ELSE "done"
    /\ UNCHANGED invoice_groups

\* PageBody in which a failed or rejected assist call ends the page like an exception
PageBodyRaising(page_num, assist, invoice_data, counted, write_ok) ==
    /\ page_data' = Append(page_data, invoice_data)
    /\ assists' = Append(assists, [reply |-> IF assist.called THEN service ELSE NoReply,
                                   po |-> assist.po, confidence |-> assist.confidence,
                                   called |-> assist.called,
                                   logged |-> Len(assist.log_calls)])
    /\ api_calls' = api_calls + (IF assist.called THEN 1 ELSE 0)
    /\ log_calls' = log_calls + Len(assist.log_calls)
    /\ claude_api_log' = log_claude_api_usage(claude_api_log, assist.log_calls, log_writable)
    /\ IF assist.called /\ (assist.po = 0 \/ assist.confidence < ClaudeThreshold)
       THEN /\ results' = Failed(counted)
            /\ pc' = "done"
            /\ UNCHANGED <<invoice_groups, uploads>>
       ELSE IF invoice_data.found /\ ~invoice_data.error
       THEN /\ invoice_groups' = AddToGroup(invoice_groups, invoice_data, page_num)
            /\ results' = counted
            /\ UNCHANGED <<uploads, pc>>
       ELSE IF invoice_data.found /\ invoice_data.error
       THEN ErrorPage(page_num, invoice_data, counted, write_ok)
       ELSE UnmatchedPage(page_num, counted, write_ok)

\* lines 2010-2073: the body of the loop for page page_num, given what the assist call and
\* extract_invoice_data returned for it
PageBody(page_num, assist, invoice_data, counted, write_ok) ==
    /\ page_data' = Append(page_data, invoice_data)
    /\ assists' = Append(assists, [reply |-> IF assist.called THEN service ELSE NoReply,
                                   po |-> assist.po, confidence |-> assist.confidence,
                                   called |-> assist.called,
                                   logged |-> Len(assist.log_calls)])
    /\ api_calls' = api_calls + (IF assist.called THEN 1 ELSE 0)
    /\ log_calls' = log_calls + Len(assist.log_calls)
    /\ claude_api_log' = log_claude_api_usage(claude_api_log, assist.log_calls, log_writable)
    /\ IF invoice_data.found /\ ~invoice_data.error
       THEN /\ invoice_groups' = AddToGroup(invoice_groups, invoice_data, page_num)
            /\ results' = counted
            /\ UNCHANGED <<uploads, pc>>
       ELSE IF invoice_data.found /\ invoice_data.error
       THEN ErrorPage(page_num, invoice_data, counted, write_ok)
       ELSE UnmatchedPage(page_num, counted, write_ok)

\* the loop body writes a document for the page: the page is not added to a group
WritesPage(k, pm, enabled, active_jobs, reply) ==
    extract_invoice_data(k, pm, enabled, active_jobs, reply).error
        \/ ~extract_invoice_data(k, pm, enabled, active_jobs, reply).found

\* one iteration of the loop over pdf.pages: the next page holds the k-th catalogue text
\* and write_ok says whether the page's output file can be written
ProcessPage(k, write_ok) ==
    /\ pc = "pages"
    /\ Len(pdf) < MaxPages
    /\ pdf' = Append(pdf, k)
    /\ PageBody(Len(pdf) + 1,
                assist_call(PageTexts[k], po_map, claude_enabled, jobs, service),
                extract_invoice_data(k, po_map, claude_enabled, jobs, service),
                [results EXCEPT !.processed = @ + 1], write_ok)
    /\ fault' = (fault \/ (~write_ok /\ WritesPage(k, po_map, claude_enabled, jobs, service)))
    /\ UNCHANGED <<po_requests, claude_enabled, jobs, service, log_writable, po_map, updates, saved>>
    /\ UNCHANGED <<request, other, fn>>

\* the document has no further page: the loop over pdf.pages ends
EndOfPages ==
    /\ pc = "pages"
    /\ pc' = "save"
    /\ UNCHANGED <<po_requests, claude_api_log, claude_enabled, jobs, service, log_writable, pdf, po_map, invoice_groups,
                   results, uploads, updates, saved, page_data, assists, api_calls, log_calls>>
    /\ UNCHANGED <<fault, request, other, fn>>

\* f"{first + 1}" + (f"-{last + 1}" if len(pages) > 1 else "")
PageRange(pages) ==
    IF Len(pages) > 1 THEN <<pages[1] + 1, pages[Len(pages)] + 1>> ELSE <<pages[1] + 1>>

\* lines 2093-2101: the parameters of the UPDATE; float(cost) is the estimated cost
UpdateOf(po_id, filename, inv_num, invoice_data) ==
    [id |-> po_id, invoice_filename |-> filename, invoice_number |-> inv_num,
     invoice_cost |-> invoice_data.cost, estimated_cost |-> invoice_data.cost,
     match_method |-> invoice_data.match_method]

\* lines 2080-2118: the group's document is written, the UPDATE executed, the match
\* counted and its entry appended to details
SaveBody(group, invoice_data, po_id, filename) ==
    /\ uploads' = WriteFile(uploads, filename, group.pages)
    /\ updates' = Append(updates, UpdateOf(po_id, filename, group.inv_num, invoice_data))
    /\ results' = [results EXCEPT
                     !.matched = @ + 1,
                     !.details = Append(@,
                        [page |-> PageRange(group.pages),
                         po_number |-> po_id,
                         job_name |-> po_map[po_id].job_name,
                         estimated_cost |-> po_map[po_id].estimated_cost,
                         invoice_number |-> group.inv_num,
                         cost |-> invoice_data.cost,
                         status |-> "matched",
                         pages |-> Len(group.pages)])]
    /\ saved' = saved + 1
    /\ UNCHANGED pc

\* the connection of the run holds the write lock of the database: it has executed an
\* UPDATE and not yet committed
HoldsLock(run) == run.pc = "saved" /\ run.updates # << >>

\* SaveGroup on a connection in autocommit mode: the UPDATE of each group is in the store
\* at once
SaveGroupAutocommit(write_ok) ==
    /\ pc = "save"
    /\ saved < Len(invoice_groups)
    /\ IF write_ok
       THEN /\ ~HoldsLock(other)
            /\ SaveBody(invoice_groups[saved + 1], invoice_groups[saved + 1].data,
                     invoice_groups[saved + 1].data.po_id,
                     MatchedFilename(invoice_groups[saved + 1].data.po_id,
                                     invoice_groups[saved + 1].inv_num))
       ELSE /\ results' = Failed(results)
            /\ pc' = "done"
            /\ UNCHANGED <<uploads, updates, saved>>
    /\ fault' = (fault \/ ~write_ok)
    /\ po_requests' =
          IF write_ok
          THEN [po_requests EXCEPT ![invoice_groups[saved + 1].data.po_id] =
                  [@ EXCEPT !.invoice_filename =
                                MatchedFilename(invoice_groups[saved + 1].data.po_id,
                                                invoice_groups[saved + 1].inv_num),
                            !.invoice_number = invoice_groups[saved + 1].inv_num,
                            !.invoice_cost = invoice_groups[saved + 1].data.cost,
                            !.match_method = invoice_groups[saved + 1].data.match_method]]
          ELSE po_requests
    /\ UNCHANGED <<claude_api_log, claude_enabled, jobs, service, log_writable, pdf,
                   po_map, invoice_groups, page_data, assists, api_calls, log_calls>>
    /\ UNCHANGED <<request, other, fn>>

\* one iteration of the loop over invoice_groups.items(); write_ok says whether the
\* group's document can be written
SaveGroup(write_ok) ==
    /\ pc = "save"
    /\ saved < Len(invoice_groups)
    /\ IF write_ok
       THEN /\ ~HoldsLock(other)
            /\ SaveBody(invoice_groups[saved + 1], invoice_groups[saved + 1].data,
                     invoice_groups[saved + 1].data.po_id,
                     MatchedFilename(invoice_groups[saved + 1].data.po_id,
                                     invoice_groups[saved + 1].inv_num))
       ELSE /\ results' = Failed(results)
            /\ pc' = "done"
            /\ UNCHANGED <<uploads, updates, saved>>
    /\ fault' = (fault \/ ~write_ok)
    /\ UNCHANGED <<po_requests, claude_api_log, claude_enabled, jobs, service, log_writable, pdf,
                   po_map, invoice_groups, page_data, assists, api_calls, log_calls>>
    /\ UNCHANGED <<request, other, fn>>

RECURSIVE ApplyUpdatesIfWaiting(_, _)
\* ApplyUpdates of an UPDATE guarded by "AND invoice_filename IS NULL": a row that holds an
\* invoice is left alone
ApplyUpdatesIfWaiting(rows, us) ==
    IF us = << >> THEN rows
    ELSE LET u == Head(us)
         IN  ApplyUpdatesIfWaiting(
                 IF rows[u.id].invoice_filename # None THEN rows
                 ELSE [rows EXCEPT ![u.id] =
                         [@ EXCEPT !.invoice_filename = u.invoice_filename,
                                   !.invoice_number = u.invoice_number,
                                   !.invoice_cost = u.invoice_cost,
                                   !.estimated_cost = u.estimated_cost,
                                   !.match_method = u.match_method]],
                 Tail(us))

RECURSIVE ApplyUpdates(_, _)
\* the UPDATE statements take effect in the order they were executed
ApplyUpdates(rows, us) ==
    IF us = << >> THEN rows
    ELSE LET u == Head(us)
         IN  ApplyUpdates([rows EXCEPT ![u.id] =
                              [@ EXCEPT !.invoice_filename = u.invoice_filename,
                                        !.invoice_number = u.invoice_number,
                                        !.invoice_cost = u.invoice_cost,
                                        !.estimated_cost = u.estimated_cost,
                                        !.match_method = u.match_method]],
                          Tail(us))

\* lines 2120-2128: conn.commit() and the result message
Commit ==
    /\ pc = "save"
    /\ saved = Len(invoice_groups)
    /\ po_requests' = ApplyUpdates(po_requests, updates)
    /\ updates' = << >>
    /\ results' = [results EXCEPT !.message = IF Len(results.errors) > 0 THEN "warning" ELSE "ok"]
    /\ pc' = "done"
    /\ UNCHANGED <<claude_api_log, claude_enabled, jobs, service, log_writable, pdf, po_map,
                   invoice_groups, uploads, saved, page_data, assists, api_calls, log_calls>>
    /\ UNCHANGED <<fault, request, other, fn>>

\* RemoveTemp without the try around os.remove: a failing deletion reaches the outer
\* except clause of bulk_upload_invoices, which answers with the error
RemoveTempRaising(remove_ok) ==
    /\ pc = "done"
    /\ request' = [temp_pdf |-> ~remove_ok, removals |-> request.removals + 1,
                   response |-> [returned |-> TRUE,
                                 body |-> IF remove_ok THEN results ELSE Failed(results)]]
    /\ pc' = "returned"
    /\ UNCHANGED <<po_requests, claude_api_log, claude_enabled, jobs, service, log_writable, pdf,
                   po_map, invoice_groups, results, uploads, updates, saved, page_data, assists,
                   api_calls, log_calls, fault, other, fn>>

\* lines 1955-1962 of bulk_upload_invoices: process_bulk_pdf has returned, os.remove is
\* called on the temporary file, its exception is swallowed, and results is the response;
\* remove_ok says whether os.remove succeeds
RemoveTemp(remove_ok) ==
    /\ pc = "done"
    /\ request' = [temp_pdf |-> ~remove_ok, removals |-> request.removals + 1,
                   response |-> [returned |-> TRUE, body |-> results]]
    /\ pc' = "returned"
    /\ UNCHANGED <<po_requests, claude_api_log, claude_enabled, jobs, service, log_writable, pdf,
                   po_map, invoice_groups, results, uploads, updates, saved, page_data, assists,
                   api_calls, log_calls, fault, other, fn>>

(***************************************************************************)
(* A second upload: process_bulk_pdf runs in another request thread on a   *)
(* one-page document, with its own connection to the same database.        *)
(***************************************************************************)
mainVars == <<pc, pdf, po_map, invoice_groups, results, updates, saved, page_data, assists,
              fault, request>>

settings == <<claude_enabled, jobs, service, log_writable>>

\* lines 1986-2007 of the second run: it reads the eligible POs of the committed store;
\* its document holds the k-th catalogue text
OtherRead(k) ==
    /\ other.pc = "idle"
    /\ other' = [other EXCEPT !.pc = "pages", !.po_map = PoMapOf(po_requests), !.pdf = <<k>>]
    /\ UNCHANGED <<po_requests, claude_api_log, uploads, api_calls, log_calls>>
    /\ UNCHANGED <<mainVars, settings, fn>>

\* lines 2040-2118 of the second run for its page: the document of the page or of its
\* group is written and, for a group, the UPDATE is executed once the write lock is free
OtherSave(invoice_data) ==
    IF invoice_data.found /\ ~invoice_data.error
    THEN /\ updates = << >>
         /\ uploads' = WriteFile(uploads,
                           MatchedFilenameAt(other.stamp, invoice_data.po_id,
                                             invoice_data.invoice_number), <<0>>)
         /\ other' = [other EXCEPT
                         !.pc = "saved",
                         !.updates = <<UpdateOf(invoice_data.po_id,
                                          MatchedFilenameAt(other.stamp, invoice_data.po_id,
                                                            invoice_data.invoice_number),
                                          invoice_data.invoice_number, invoice_data)>>]
    ELSE /\ uploads' = WriteFile(uploads,
                           IF invoice_data.found
                           THEN ErrorFilenameAt(other.stamp, 1, invoice_data.invoice_number)
                           ELSE UnmatchedFilenameAt(other.stamp, 1), <<0>>)
         /\ other' = [other EXCEPT !.pc = "saved"]

\* lines 2009-2118 of the second run: the page loop and the save loop; write_ok says
\* whether they end without an exception
OtherBody(assist, invoice_data, write_ok) ==
    /\ claude_api_log' = log_claude_api_usage(claude_api_log, assist.log_calls, log_writable)
    /\ api_calls' = api_calls + (IF assist.called THEN 1 ELSE 0)
    /\ log_calls' = log_calls + Len(assist.log_calls)
    /\ IF write_ok
       THEN OtherSave(invoice_data)
       ELSE /\ other' = [other EXCEPT !.pc = "failed"]
            /\ UNCHANGED uploads

OtherProcess(write_ok) ==
    /\ other.pc = "pages"
    /\ OtherBody(assist_call(PageTexts[other.pdf[1]], other.po_map, claude_enabled, jobs, service),
                 extract_invoice_data(other.pdf[1], other.po_map, claude_enabled, jobs, service),
                 write_ok)
    /\ UNCHANGED po_requests
    /\ UNCHANGED <<mainVars, settings, fn>>

\* the first run has committed
MainCommitted == pc \in {"done", "returned"} /\ results.success

\* lines 2120-2121 of the second run: conn.commit()
OtherCommit ==
    /\ other.pc = "saved"
    /\ po_requests' = ApplyUpdates(po_requests, other.updates)
    /\ other' = [other EXCEPT !.pc = "committed", !.after = MainCommitted]
    /\ UNCHANGED <<claude_api_log, uploads, api_calls, log_calls>>
    /\ UNCHANGED <<mainVars, settings, fn>>

Next ==
    \/ ReadEligible
    \/ \E k \in DOMAIN PageTexts, write_ok \in BOOLEAN : ProcessPage(k, write_ok)
    \/ EndOfPages
    \/ \E write_ok \in BOOLEAN : SaveGroup(write_ok)
    \/ Commit
    \/ \E remove_ok \in BOOLEAN : RemoveTemp(remove_ok)

Spec == Init /\ [][Next]_vars

\* every step of the request that can be taken is eventually taken: the loops advance
\* and each call returns
FairSpec == Spec /\ WF_vars(Next)

\* the documents the second upload can hold
OtherDocuments == DOMAIN PageTexts

OtherNext ==
    \/ \E k \in OtherDocuments : OtherRead(k)
    \/ \E write_ok \in BOOLEAN : OtherProcess(write_ok)
    \/ OtherCommit

\* two uploads processed concurrently, the assist being switched off
InitRuns == Init /\ ~claude_enabled

NextRuns == Next \/ OtherNext

SpecRuns == InitRuns /\ [][NextRuns]_vars

(***************************************************************************)
(* Batches run one after another: the second upload is made once the first *)
(* request has returned, and the office may delete an invoice in between.  *)
(***************************************************************************)
\* the invoice_filename of an invoice entered by hand, which names no file
MANUAL_ENTRY == <<"M","A","N","U","A","L","_","E","N","T","R","Y">>

\* lines 1568-1590: the invoice document of the PO is removed from the upload folder,
\* unless it was entered by hand or os.remove fails, and the invoice columns of its row
\* are set to NULL; the PO stays approved
delete_invoice(request_id, remove_ok) ==
    /\ pc = "returned"
    /\ other.pc = "idle"
    /\ Cardinality(other.deleted) < MaxDeletions
    /\ uploads' = IF /\ po_requests[request_id].invoice_filename # None
                     /\ po_requests[request_id].invoice_filename # MANUAL_ENTRY
                     /\ remove_ok
                  THEN {f \in uploads : f.name # po_requests[request_id].invoice_filename}
                  ELSE uploads
    /\ po_requests' = [po_requests EXCEPT ![request_id] =
                          [@ EXCEPT !.invoice_filename = None, !.invoice_number = None,
                                    !.invoice_cost = None]]
    /\ other' = [other EXCEPT !.deleted =
                    IF po_requests[request_id].invoice_filename # None
                    THEN @ \cup {request_id} ELSE @]
    /\ UNCHANGED <<claude_api_log, api_calls, log_calls>>
    /\ UNCHANGED <<mainVars, settings, fn>>

\* the second upload is made after the response to the first
LaterRead(k) == pc = "returned" /\ OtherRead(k)

NextLater ==
    \/ Next
    \/ \E request_id \in PoIds, remove_ok \in BOOLEAN : delete_invoice(request_id, remove_ok)
    \/ \E k \in OtherDocuments : LaterRead(k)
    \/ \E write_ok \in BOOLEAN : OtherProcess(write_ok)
    \/ OtherCommit

SpecLater == InitRuns /\ [][NextLater]_vars

(***************************************************************************)
(* Two uploads whose requests may start within the same clock second: the  *)
(* timestamp of the second is that of the first or the next one, and both  *)
(* requests name their temporary file and their documents after it.        *)
(***************************************************************************)
\* datetime.now().strftime('%Y%m%d_%H%M%S') of the second upload
UploadStamps == {timestamp, other_timestamp}

\* lines 1951-1953 and 1986-2007 of the second request: the timestamp is taken, the file
\* saved as bulk_{timestamp}.pdf, replacing a file of that name, and the eligible POs read
OtherUpload(k, stamp) ==
    /\ other.pc = "idle"
    /\ other' = [other EXCEPT !.pc = "pages", !.po_map = PoMapOf(po_requests), !.pdf = <<k>>,
                              !.stamp = stamp]
    /\ UNCHANGED <<po_requests, claude_api_log, uploads, api_calls, log_calls>>
    /\ UNCHANGED <<mainVars, settings, fn>>

\* lines 1957-1962 of the second request: os.remove on its temporary path, which is the
\* path of the first request when the timestamps are equal
OtherRemove(remove_ok) ==
    /\ other.pc \in {"committed", "failed"}
    /\ other' = [other EXCEPT !.pc = "returned"]
    /\ request' = IF remove_ok /\ other.stamp = timestamp
                  THEN [request EXCEPT !.temp_pdf = FALSE]
                  ELSE request
    /\ UNCHANGED <<po_requests, claude_api_log, uploads, api_calls, log_calls>>
    /\ UNCHANGED <<pc, pdf, po_map, invoice_groups, results, updates, saved, page_data,
                   assists, fault>>
    /\ UNCHANGED <<settings, fn>>

NextSameSecond ==
    \/ Next
    \/ \E k \in OtherDocuments, stamp \in UploadStamps : OtherUpload(k, stamp)
    \/ \E write_ok \in BOOLEAN : OtherProcess(write_ok)
    \/ OtherCommit
    \/ \E remove_ok \in BOOLEAN : OtherRemove(remove_ok)

SpecSameSecond == InitRuns /\ [][NextSameSecond]_vars

(***************************************************************************)
(* The text functions called on their own.  A behaviour starts with the    *)
(* arguments of one call in fn and applies the function to them; the       *)
(* request is not running.                                                 *)
(***************************************************************************)
\* the longest text given to normalize_text_for_matching
MaxLen == 5

\* the longest string given to fuzzy_match_score
MaxScoreLen == 3

\* the longest string given to levenshtein_distance
MaxLevLen == 3

\* the most words of a text searched by find_job_name_in_text
MaxWords == 2

RECURSIVE StringsOver(_, _)
\* the strings of at most n characters of alphabet
StringsOver(alphabet, n) ==
    IF n = 0 THEN {<< >>}
    ELSE LET shorter == StringsOver(alphabet, n - 1)
         IN  shorter \cup {Append(t, c) : t \in shorter, c \in alphabet}

RECURSIVE ListsOver(_, _)
\* the lists of at most n elements of items
ListsOver(items, n) ==
    IF n = 0 THEN {<< >>}
    ELSE LET shorter == ListsOver(items, n - 1)
         IN  shorter \cup {Append(l, w) : l \in shorter, w \in items}

\* the words of the texts searched for a job name
TextWords ==
    { <<"H","E","R","O","N","S","G","L","E","N">>, <<"H","e","r","o","n","s">>,
      <<"G","l","e","n">>, <<"G","e","l","n">>, <<"O","a","k">> }

\* the job names searched for
SearchedJobs ==
    { JobHeronsGlen, <<"H","E","R","O","N","S","G","L","E","N">>, <<"G","l","e","n">>,
      <<"O","a","k","-","G","l","e","n">> }

\* the thresholds given: the two the callers pass (0.75 and 0.70) and two stricter ones
Thresholds == {FuzzyThreshold, BroadThreshold, Score(95, 100), Score(99, 100)}

\* normalize_text_for_matching(text), to be applied to the text and then to its own result
NormalizeCalls ==
    { [op |-> "normalize", text |-> t, values |-> << >>]
      : t \in StringsOver({"a", "B", " ", "!"}, MaxLen) }

\* fuzzy_match_score over the two texts
ScoreCalls ==
    { [op |-> "score", texts |-> <<a, b>>, returned |-> FALSE]
      : a \in StringsOver({"a", "B", " "}, MaxScoreLen),
        b \in StringsOver({"a", "B", " "}, MaxScoreLen) }

\* levenshtein_distance over the three strings
LevCalls ==
    { [op |-> "levenshtein", strings |-> <<a, b, c>>, returned |-> FALSE]
      : a \in StringsOver({"a", "b"}, MaxLevLen),
        b \in StringsOver({"a", "b"}, MaxLevLen),
        c \in StringsOver({"a", "b"}, MaxLevLen) }

\* find_job_name_in_text(text, job_name, threshold)
FindCalls ==
    { [op |-> "find", text |-> JoinSpace(ws), job_name |-> j, threshold |-> th,
       returned |-> FALSE]
      : ws \in ListsOver(TextWords, MaxWords), j \in SearchedJobs, th \in Thresholds }

\* the request's variables
requestVars == <<mainVars, settings, po_requests, claude_api_log, uploads, api_calls,
                 log_calls, other>>

\* no upload is made: the store holds no eligible PO and the assist is off
IdleRequest ==
    /\ po_requests = [id \in PoIds |-> PoRow(id, IF id = 2020 THEN "pending" ELSE "invoiced")]
    /\ claude_api_log = << >>
    /\ claude_enabled = FALSE
    /\ jobs = << >>
    /\ service = NoReply
    /\ log_writable = TRUE
    /\ pc = "start"
    /\ pdf = << >>
    /\ po_map = << >>
    /\ invoice_groups = << >>
    /\ results = [success |-> TRUE, processed |-> 0, matched |-> 0, unmatched |-> << >>,
                  errors |-> << >>, details |-> << >>, message |-> "", error |-> "",
                  trace |-> ""]
    /\ uploads = {}
    /\ updates = << >>
    /\ saved = 0
    /\ page_data = << >>
    /\ assists = << >>
    /\ api_calls = 0
    /\ log_calls = 0
    /\ fault = FALSE
    /\ request = [temp_pdf |-> TRUE, removals |-> 0, response |-> NoResponse]
    /\ other = IdleRun

InitText == IdleRequest /\ fn \in NormalizeCalls \cup ScoreCalls \cup LevCalls \cup FindCalls

\* the argument of the next call of normalize_text_for_matching: the text, then the
\* value the last call returned
NextArgument(call) ==
    IF call.values = << >> THEN call.text ELSE call.values[Len(call.values)]

\* normalize_text_for_matching is called, at most twice
ApplyNormalize ==
    /\ fn.op = "normalize"
    /\ Len(fn.values) < 2
    /\ fn' = [fn EXCEPT !.values = Append(fn.values,
                                          normalize_text_for_matching(NextArgument(fn)))]
    /\ UNCHANGED requestVars

\* fuzzy_match_score is called on every pair of the two texts
ApplyScore ==
    /\ fn.op = "score"
    /\ ~fn.returned
    /\ fn' = [op |-> "score", texts |-> fn.texts, returned |-> TRUE,
              value |-> [p \in (1..2) \X (1..2) |->
                            fuzzy_match_score(fn.texts[p[1]], fn.texts[p[2]])]]
    /\ UNCHANGED requestVars

\* levenshtein_distance is called on every pair of the three strings
ApplyLevenshtein ==
    /\ fn.op = "levenshtein"
    /\ ~fn.returned
    /\ fn' = [op |-> "levenshtein", strings |-> fn.strings, returned |-> TRUE,
              value |-> [p \in (1..3) \X (1..3) |->
                            levenshtein_distance(fn.strings[p[1]], fn.strings[p[2]])]]
    /\ UNCHANGED requestVars

\* find_job_name_in_text is called
ApplyFind ==
    /\ fn.op = "find"
    /\ ~fn.returned
    /\ fn' = [op |-> "find", text |-> fn.text, job_name |-> fn.job_name,
              threshold |-> fn.threshold, returned |-> TRUE,
              value |-> find_job_name_in_text(fn.text, fn.job_name, fn.threshold)]
    /\ UNCHANGED requestVars

NextText == ApplyNormalize \/ ApplyScore \/ ApplyLevenshtein \/ ApplyFind

SpecText == InitText /\ [][NextText]_vars

(***************************************************************************)
(* extract_invoice_data called on its own, with the assist off, on the     *)
(* catalogue and on further texts, each with what the capture regexes of   *)
(* extract_invoice_data return on it.                                      *)
(***************************************************************************)
\* 'CUSTOMER # INVOICE #\n12345 9876543\nPO # 4016'
SiteOnePage ==
    [text |-> <<"C","U","S","T","O","M","E","R"," ","#"," ","I","N","V","O","I","C","E"," ","#","\n","1","2","3","4","5"," ","9","8","7","6","5","4","3","\n","P","O"," ","#"," ","4","0","1","6">>,
     inv_primary |-> <<<<<<"1","2","3","4","5">>>>, <<<<"1","2","3","4","5">>>>>>,
     inv_fallback |-> <<<<<<"1","2","3","4","5">>>>, <<>>, <<>>, <<>>, <<>>, <<>>, <<>>, <<>>, <<>>, <<>>, <<>>, <<>>, <<>>>>,
     headers |-> <<[desc |-> "PO #", caps |-> <<<<"4","0","1","6">>>>]>>,
     po_caps |-> <<<<"4","0","1","6">>>>,
     cost_caps |-> <<<<>>, <<>>, <<>>>>]

\* 'Invoice # 123\nOrder # AB-12345\nPO # 1012'
ShortInvoicePage ==
    [text |-> <<"I","n","v","o","i","c","e"," ","#"," ","1","2","3","\n","O","r","d","e","r"," ","#"," ","A","B","-","1","2","3","4","5","\n","P","O"," ","#"," ","1","0","1","2">>,
     inv_primary |-> <<<<>>, <<>>>>,
     inv_fallback |-> <<<<<<"1","2","3">>>>, <<>>, <<>>, <<<<"A","B","-","1","2","3","4","5">>>>, <<>>, <<>>, <<>>, <<>>, <<>>, <<>>, <<>>, <<>>, <<>>>>,
     headers |-> <<[desc |-> "PO #", caps |-> <<<<"1","0","1","2">>>>]>>,
     po_caps |-> <<<<"1","0","1","2">>>>,
     cost_caps |-> <<<<>>, <<>>, <<>>>>]

\* 'Invoice # 123\nInvoice No: Date\nPO # 1012 SOMERVILLE'
NoValidInvoicePage ==
    [text |-> <<"I","n","v","o","i","c","e"," ","#"," ","1","2","3","\n","I","n","v","o","i","c","e"," ","N","o",":"," ","D","a","t","e","\n","P","O"," ","#"," ","1","0","1","2"," ","S","O","M","E","R","V","I","L","L","E">>,
     inv_primary |-> <<<<>>, <<>>>>,
     inv_fallback |-> <<<<<<"1","2","3">>>>, <<<<"D","a","t","e">>>>, <<<<"D","a","t","e">>>>, <<>>, <<>>, <<>>, <<>>, <<>>, <<>>, <<>>, <<>>, <<>>, <<>>>>,
     headers |-> <<[desc |-> "PO #", caps |-> <<<<"1","0","1","2">>, <<"1","0","1","2">>>>]>>,
     po_caps |-> <<<<"1","0","1","2">>, <<"1","0","1","2">>, <<"1","0","1","2">>>>,
     cost_caps |-> <<<<>>, <<>>, <<>>>>]

\* 'Invoice Number: 12345\nReceipt # R-77881'
InvoiceNumberPage ==
    [text |-> <<"I","n","v","o","i","c","e"," ","N","u","m","b","e","r",":"," ","1","2","3","4","5","\n","R","e","c","e","i","p","t"," ","#"," ","R","-","7","7","8","8","1">>,
     inv_primary |-> <<<<>>, <<>>>>,
     inv_fallback |-> <<<<>>, <<<<"b","e","r">>>>, <<>>, <<>>, <<>>, <<>>, <<>>, <<>>, <<>>, <<>>, <<<<"R","-","7","7","8","8","1">>>>, <<>>, <<>>>>,
     headers |-> <<>>,
     po_caps |-> <<>>,
     cost_caps |-> <<<<>>, <<>>, <<>>>>]

\* 'INVOICE # 55555\nPO Number: 9999 X\nnone\nReference 4016\n1012SOMERVILLE'
TwoHeaderPage ==
    [text |-> <<"I","N","V","O","I","C","E"," ","#"," ","5","5","5","5","5","\n","P","O"," ","N","u","m","b","e","r",":"," ","9","9","9","9"," ","X","\n","n","o","n","e","\n","R","e","f","e","r","e","n","c","e"," ","4","0","1","6","\n","1","0","1","2","S","O","M","E","R","V","I","L","L","E">>,
     inv_primary |-> <<<<>>, <<<<"5","5","5","5","5">>>>>>,
     inv_fallback |-> <<<<<<"5","5","5","5","5">>>>, <<>>, <<>>, <<>>, <<>>, <<>>, <<>>, <<<<"4","0","1","6">>>>, <<>>, <<>>, <<>>, <<>>, <<>>>>,
     headers |-> <<[desc |-> "PO Number", caps |-> <<<<"9","9","9","9">>, <<"9","9","9","9">>>>], [desc |-> "Reference", caps |-> <<<<"4","0","1","6">>, <<"1","0","1","2">>>>]>>,
     po_caps |-> <<<<"9","9","9","9">>, <<"9","9","9","9">>, <<"1","0","1","2">>>>,
     cost_caps |-> <<<<>>, <<>>, <<>>>>]

\* 'INVOICE # 66666\nSubtotal: 8.00\nTOTAL: $1,234.50\nAmount Due: 99.00'
CostPage ==
    [text |-> <<"I","N","V","O","I","C","E"," ","#"," ","6","6","6","6","6","\n","S","u","b","t","o","t","a","l",":"," ","8",".","0","0","\n","T","O","T","A","L",":"," ","$","1",",","2","3","4",".","5","0","\n","A","m","o","u","n","t"," ","D","u","e",":"," ","9","9",".","0","0">>,
     inv_primary |-> <<<<>>, <<<<"6","6","6","6","6">>>>>>,
     inv_fallback |-> <<<<<<"6","6","6","6","6">>>>, <<>>, <<>>, <<>>, <<>>, <<>>, <<>>, <<>>, <<>>, <<>>, <<>>, <<>>, <<>>>>,
     headers |-> <<>>,
     po_caps |-> <<>>,
     cost_caps |-> <<<<<<"8",".","0","0">>, <<"1",",","2","3","4",".","5","0">>>>, <<<<"9","9",".","0","0">>>>, <<>>>>]

\* 'INVOICE # 66667\nAmount Due: $45.00\nAmount Due: 50.00'
AmountDuePage ==
    [text |-> <<"I","N","V","O","I","C","E"," ","#"," ","6","6","6","6","7","\n","A","m","o","u","n","t"," ","D","u","e",":"," ","$","4","5",".","0","0","\n","A","m","o","u","n","t"," ","D","u","e",":"," ","5","0",".","0","0">>,
     inv_primary |-> <<<<>>, <<<<"6","6","6","6","7">>>>>>,
     inv_fallback |-> <<<<<<"6","6","6","6","7">>>>, <<>>, <<>>, <<>>, <<>>, <<>>, <<>>, <<>>, <<>>, <<>>, <<>>, <<>>, <<>>>>,
     headers |-> <<>>,
     po_caps |-> <<>>,
     cost_caps |-> <<<<>>, <<<<"4","5",".","0","0">>, <<"5","0",".","0","0">>>>, <<>>>>]

\* 'INVOICE # 66668\nGrand Total: 7.00'
GrandTotalPage ==
    [text |-> <<"I","N","V","O","I","C","E"," ","#"," ","6","6","6","6","8","\n","G","r","a","n","d"," ","T","o","t","a","l",":"," ","7",".","0","0">>,
     inv_primary |-> <<<<>>, <<<<"6","6","6","6","8">>>>>>,
     inv_fallback |-> <<<<<<"6","6","6","6","8">>>>, <<>>, <<>>, <<>>, <<>>, <<>>, <<>>, <<>>, <<>>, <<>>, <<>>, <<>>, <<>>>>,
     headers |-> <<>>,
     po_caps |-> <<>>,
     cost_caps |-> <<<<<<"7",".","0","0">>>>, <<>>, <<<<"7",".","0","0">>>>>>]

\* 'INVOICE # 70001\nItems 3030 5050 1012 here'
BareIdPage ==
    [text |-> <<"I","N","V","O","I","C","E"," ","#"," ","7","0","0","0","1","\n","I","t","e","m","s"," ","3","0","3","0"," ","5","0","5","0"," ","1","0","1","2"," ","h","e","r","e">>,
     inv_primary |-> <<<<>>, <<<<"7","0","0","0","1">>>>>>,
     inv_fallback |-> <<<<<<"7","0","0","0","1">>>>, <<>>, <<>>, <<>>, <<>>, <<>>, <<>>, <<>>, <<>>, <<>>, <<>>, <<>>, <<>>>>,
     headers |-> <<>>,
     po_caps |-> <<>>,
     cost_caps |-> <<<<>>, <<>>, <<>>>>]

\* 'INVOICE # 70002\nOrder ref: 1012'
ContextPage ==
    [text |-> <<"I","N","V","O","I","C","E"," ","#"," ","7","0","0","0","2","\n","O","r","d","e","r"," ","r","e","f",":"," ","1","0","1","2">>,
     inv_primary |-> <<<<>>, <<<<"7","0","0","0","2">>>>>>,
     inv_fallback |-> <<<<<<"7","0","0","0","2">>>>, <<>>, <<>>, <<>>, <<>>, <<>>, <<>>, <<>>, <<>>, <<>>, <<>>, <<>>, <<>>>>,
     headers |-> <<>>,
     po_caps |-> <<>>,
     cost_caps |-> <<<<>>, <<>>, <<>>>>]

\* 'INVOICE # 70003\nX1012SOMERVILLE'
ConcatPage ==
    [text |-> <<"I","N","V","O","I","C","E"," ","#"," ","7","0","0","0","3","\n","X","1","0","1","2","S","O","M","E","R","V","I","L","L","E">>,
     inv_primary |-> <<<<>>, <<<<"7","0","0","0","3">>>>>>,
     inv_fallback |-> <<<<<<"7","0","0","0","3">>>>, <<>>, <<>>, <<>>, <<>>, <<>>, <<>>, <<>>, <<>>, <<>>, <<>>, <<>>, <<>>>>,
     headers |-> <<>>,
     po_caps |-> <<>>,
     cost_caps |-> <<<<>>, <<>>, <<>>>>]

\* 'INVOICE # 90002\nHERONZ GLEM X4016 X1012'
BroadPage ==
    [text |-> <<"I","N","V","O","I","C","E"," ","#"," ","9","0","0","0","2","\n","H","E","R","O","N","Z"," ","G","L","E","M"," ","X","4","0","1","6"," ","X","1","0","1","2">>,
     inv_primary |-> <<<<>>, <<<<"9","0","0","0","2">>>>>>,
     inv_fallback |-> <<<<<<"9","0","0","0","2">>>>, <<>>, <<>>, <<>>, <<>>, <<>>, <<>>, <<>>, <<>>, <<>>, <<>>, <<>>, <<>>>>,
     headers |-> <<>>,
     po_caps |-> <<>>,
     cost_caps |-> <<<<>>, <<>>, <<>>>>]

ProbePages == PageTexts \o <<SiteOnePage, ShortInvoicePage, NoValidInvoicePage, InvoiceNumberPage, TwoHeaderPage, CostPage, AmountDuePage, GrandTotalPage, BareIdPage, ContextPage, ConcatPage, BroadPage>>

\* the job names of the POs a map given to extract_invoice_data can hold: those of the
\* store, a PO without job name and a PO of a job named '-'
ProbePoJobs == PoJobs @@ (3030 :> << >>) @@ (5050 :> <<"-">>)

\* the sets of eligible POs of the maps given to extract_invoice_data
ProbeEligible == SUBSET {1012, 4016} \cup {{2020}, {3030}, {5050}, {1012, 3030, 4016}}

\* po_map as process_bulk_pdf builds it, for the eligible POs E
ProbeMap(E) ==
    [id \in E |-> [id |-> id, job_name |-> ProbePoJobs[id],
                   estimated_cost |-> <<"1","0","0",".","0","0">>]]

\* extract_invoice_data(text, po_map) with the assist off
ExtractPage(page, pm, active_jobs) ==
    IF page.text = << >> THEN NoData
    ELSE IF find_invoice_number(page) = None THEN NoData
    ELSE InvoiceData(page, fallback_steps(page, pm, active_jobs, NoPo))

\* extract_invoice_data(text, po_map) for a text, a map and a list of active jobs
ExtractCalls ==
    { [op |-> "extract", page |-> k, po_map |-> ProbeMap(E), active_jobs |-> aj,
       returned |-> FALSE]
      : k \in DOMAIN ProbePages, E \in ProbeEligible, aj \in JobLists }

InitPage == IdleRequest /\ fn \in ExtractCalls

\* what extract_invoice_data computes for the page: the invoice number, the cost, what each
\* strategy finds when it is the one to run, and the dict returned
Extraction(page, pm, active_jobs) ==
    [invoice_number |-> find_invoice_number(page),
     cost           |-> find_total_cost(page),
     table          |-> table_column_step(page, pm, NoPo).po_number,
     pattern        |-> pattern_match_step(page, pm, NoPo).po_number,
     direct         |-> direct_search_step(page, pm, NoPo).po_number,
     windowed       |-> IF DOMAIN pm = {} THEN 0 ELSE WindowScan(page.text, pm, active_jobs, 1),
     fuzzy          |-> fuzzy_scan_step(page, pm, active_jobs, NoPo).po_number,
     data           |-> ExtractPage(page, pm, active_jobs)]

\* extract_invoice_data is called
ApplyExtract ==
    /\ fn.op = "extract"
    /\ ~fn.returned
    /\ fn' = [op |-> "extract", page |-> fn.page, po_map |-> fn.po_map,
              active_jobs |-> fn.active_jobs, returned |-> TRUE,
              value |-> Extraction(ProbePages[fn.page], fn.po_map, fn.active_jobs)]
    /\ UNCHANGED requestVars

NextPage == ApplyExtract

SpecPage == InitPage /\ [][NextPage]_vars

(***************************************************************************)
(* Properties of a batch, part 1: eligibility, grouping, strategy order    *)
(***************************************************************************)
\* page i (1-based) is the q-th page of some position of the document f
InDoc(f, i) == \E q \in DOMAIN f.pages : f.pages[q] = i - 1

\* page i is one of the pages of group g
InGroup(g, i) == \E q \in DOMAIN invoice_groups[g].pages : invoice_groups[g].pages[q] = i - 1

Ascending(pages) == \A a, b \in DOMAIN pages : a < b => pages[a] < pages[b]

\* extract_invoice_data returned a PO for page i
Matched(i) == page_data[i].found /\ ~page_data[i].error

Returned == pc = "done" /\ results.success

\* C1: whatever strategy resolved it, the PO id extract_invoice_data returns for a page
\* is a key of the eligible map read at the start of the run, and so is the PO of every
\* group, of every UPDATE, of every details entry and of every row the run changed.
C1_ResolvedPoIsEligible ==
    /\ \A i \in DOMAIN page_data :
          page_data[i].po_id # 0 => page_data[i].po_id \in DOMAIN po_map
    /\ \A g \in DOMAIN invoice_groups : invoice_groups[g].data.po_id \in DOMAIN po_map
    /\ \A u \in DOMAIN updates : updates[u].id \in DOMAIN po_map
    /\ \A d \in DOMAIN results.details : results.details[d].po_number \in DOMAIN po_map
    /\ \A id \in DOMAIN po_requests :
          po_requests[id].match_method # "None" => id \in DOMAIN po_map

\* a page whose table column names a PO that is not eligible was resolved by a later
\* strategy, and the match is committed
C1_Witness ==
    /\ pc = "done"
    /\ \E i \in DOMAIN pdf :
          /\ PageTexts[pdf[i]] = MixedPage
          /\ 4016 \notin DOMAIN po_map
          /\ page_data[i].po_id = 1012
          /\ po_requests[1012].match_method = page_data[i].match_method

\* C2: no two invoice groups of a batch resolve to the same PO: each eligible PO is the
\* target of at most one match per run.
C2_OneMatchPerPo ==
    /\ \A g, h \in DOMAIN invoice_groups :
          g # h => invoice_groups[g].data.po_id # invoice_groups[h].data.po_id
    /\ \A u, v \in DOMAIN updates : u # v => updates[u].id # updates[v].id

\* C3 as stated: any two pages with the same detected invoice number are in one and the
\* same output document, whose page indices ascend, once the batch has returned.
C3_SameInvoiceSameDocument ==
    Returned =>
        \A i, j \in DOMAIN page_data :
            (i < j /\ page_data[i].found /\ page_data[j].found
                   /\ page_data[i].invoice_number = page_data[j].invoice_number)
            => \E f \in uploads :
                  /\ InDoc(f, i) /\ InDoc(f, j) /\ Ascending(f.pages)
                  /\ \A h \in uploads : (InDoc(h, i) \/ InDoc(h, j)) => h = f

\* C3 amended: any two pages with the same detected invoice number for each of which a PO
\* was resolved are in one and the same output document, whose page indices ascend, once
\* the batch has returned success.
C3_MatchedSameInvoiceSameDocument ==
    Returned =>
        \A i, j \in DOMAIN page_data :
            (i < j /\ Matched(i) /\ Matched(j)
                   /\ page_data[i].invoice_number = page_data[j].invoice_number)
            => \E f \in uploads :
                  /\ InDoc(f, i) /\ InDoc(f, j) /\ Ascending(f.pages)
                  /\ \A h \in uploads : (InDoc(h, i) \/ InDoc(h, j)) => h = f

\* two matched pages with one invoice number, saved in one document
C3_Witness ==
    /\ Returned
    /\ \E i, j \in DOMAIN page_data :
          /\ i < j /\ Matched(i) /\ Matched(j)
          /\ page_data[i].invoice_number = page_data[j].invoice_number
          /\ \E f \in uploads : f.pages = <<i - 1, j - 1>>

(***************************************************************************)
(* Properties of a batch, part 2: the order of the strategies and the      *)
(* assist step                                                             *)
(***************************************************************************)
\* what each of Methods 1 to 4 yields when it is the first to run, for every catalogue
\* text, eligible map and job list
StrategyOutcomes ==
    { [k |-> k, pm |-> pm, active_jobs |-> aj,
       table   |-> table_column_step(PageTexts[k], pm, NoPo),
       pattern |-> pattern_match_step(PageTexts[k], pm, NoPo),
       direct  |-> direct_search_step(PageTexts[k], pm, NoPo),
       fuzzy   |-> fuzzy_scan_step(PageTexts[k], pm, aj, NoPo)]
      : k \in DOMAIN PageTexts, pm \in {PoMapOf(rows) : rows \in InitialStores},
        aj \in JobLists }

\* the outcomes of Methods 1 to 4 for page i of the batch
OutcomesOf(i) ==
    CHOOSE t \in StrategyOutcomes : t.k = pdf[i] /\ t.pm = po_map /\ t.active_jobs = jobs

\* the assist suggestion for page i, when it was accepted
AssistOutcome(i) ==
    IF assists[i].po # 0 /\ assists[i].confidence >= 60
    THEN [po_number |-> assists[i].po, match_method |-> "Claude AI"]
    ELSE NoPo

RECURSIVE FirstSuccess(_)
\* the first outcome of the sequence that names a PO
FirstSuccess(outcomes) ==
    IF outcomes = << >> THEN NoPo
    ELSE IF Head(outcomes).po_number # 0 THEN Head(outcomes)
    ELSE FirstSuccess(Tail(outcomes))

\* the outcomes for page i in the order AI assist, table column, regex, direct, fuzzy
InOrder(i, t) == <<AssistOutcome(i), t.table, t.pattern, t.direct, t.fuzzy>>

\* C4: for every page with an invoice number the PO and the match_method returned are
\* those of the first strategy, in the order AI assist, table column, regex patterns,
\* direct search, fuzzy scan, that names a PO; no later strategy changes them.
C4_FirstSuccessWins ==
    \A i \in DOMAIN page_data :
        page_data[i].found =>
            /\ page_data[i].po_id = FirstSuccess(InOrder(i, OutcomesOf(i))).po_number
            /\ page_data[i].match_method = FirstSuccess(InOrder(i, OutcomesOf(i))).match_method

\* a page resolved by the table column although the regex patterns name another PO
C4_Witness ==
    \E i \in DOMAIN page_data :
        /\ page_data[i].match_method = "Table Column"
        /\ OutcomesOf(i).pattern.po_number # 0
        /\ OutcomesOf(i).pattern.po_number # page_data[i].po_id

\* the reply is a suggestion that names the eligible PO po
Suggests(reply, po) ==
    /\ reply.kind = "message"
    /\ \A key \in {"MATCHED", "JOB_NAME", "PO_NUMBER", "CONFIDENCE"} : key \in DOMAIN reply.result
    /\ str_lower(reply.result["MATCHED"]) = Chars_yes
    /\ str_lower(reply.result["JOB_NAME"]) # Chars_none
    /\ IsIntLiteral(reply.result["PO_NUMBER"])
    /\ StrToInt(reply.result["PO_NUMBER"]) = po
    /\ po \in DOMAIN po_map

\* the confidence score the claim gives to a level, in hundredths
ScoreOfLevel(level) ==
    CASE str_lower(level) = Chars_high   -> 95
      [] str_lower(level) = Chars_medium -> 80
      [] str_lower(level) = Chars_low    -> 60
      [] OTHER                           -> 50

\* C5: when the assist suggests an eligible PO for a page on which the table column alone
\* resolves another eligible PO, the page resolves to the assist's PO if and only if the
\* score of the confidence level (high 0.95, medium 0.80, low 0.60, others 0.50) is at
\* least 0.60; otherwise it resolves to the table column's PO.
C5_AssistThreshold ==
    \A i \in DOMAIN page_data : \A po \in DOMAIN po_map :
        (/\ assists[i].called
         /\ page_data[i].found
         /\ Suggests(assists[i].reply, po)
         /\ OutcomesOf(i).table.po_number \notin {0, po})
        => IF ScoreOfLevel(assists[i].reply.result["CONFIDENCE"]) >= 60
           THEN /\ page_data[i].po_id = po
                /\ page_data[i].match_method = "Claude AI"
           ELSE /\ page_data[i].po_id = OutcomesOf(i).table.po_number
                /\ page_data[i].match_method = "Table Column"

\* a suggestion of low confidence overrides the PO of the table column
C5_Witness ==
    \E i \in DOMAIN page_data :
        /\ assists[i].called
        /\ Suggests(assists[i].reply, 4016)
        /\ str_lower(assists[i].reply.result["CONFIDENCE"]) = Chars_low
        /\ OutcomesOf(i).table.po_number = 1012
        /\ page_data[i].po_id = 4016

\* the call of the assist service raised an error
CallFailed(reply) == reply.kind \in {"APIError", "Exception"}

\* the reply of the assist service holds no PO number that can be read
Unparsable(reply) ==
    /\ reply.kind = "message"
    /\ \/ "PO_NUMBER" \notin DOMAIN reply.result
       \/ ~IsIntLiteral(reply.result["PO_NUMBER"])

\* the reply of the assist service names a PO that is not eligible
Ineligible(reply) ==
    /\ reply.kind = "message"
    /\ "PO_NUMBER" \in DOMAIN reply.result
    /\ IsIntLiteral(reply.result["PO_NUMBER"])
    /\ StrToInt(reply.result["PO_NUMBER"]) \notin DOMAIN po_map

\* C6: when the assist call fails, or its reply cannot be parsed, or it names a PO that is
\* not eligible, match_invoice_with_claude returns 'no match', the page is resolved as it
\* is with the assist disabled, and the page is still classified by the batch.
C6_AssistFailureFallsBack ==
    \A i \in DOMAIN page_data :
        (/\ assists[i].called
         /\ \/ CallFailed(assists[i].reply)
            \/ Unparsable(assists[i].reply)
            \/ Ineligible(assists[i].reply))
        => /\ assists[i].po = 0
           /\ page_data[i] = extract_invoice_data(pdf[i], po_map, FALSE, jobs, NoReply)
           /\ results.processed >= i
           /\ IF page_data[i].error
              THEN \E e \in DOMAIN results.errors : results.errors[e].page = i
              ELSE \E g \in DOMAIN invoice_groups : InGroup(g, i)

\* after a failed call the page is resolved by a fallback strategy and its match committed
C6_Witness ==
    /\ Returned
    /\ \E i \in DOMAIN page_data :
          /\ assists[i].called
          /\ CallFailed(assists[i].reply)
          /\ page_data[i].po_id # 0
          /\ po_requests[page_data[i].po_id].match_method = page_data[i].match_method

(***************************************************************************)
(* Properties of a batch, part 3: the usage log and the accounting of      *)
(* pages                                                                   *)
(***************************************************************************)
\* C7 as stated: every call of the assist service has written exactly one usage record,
\* whether its suggestion was accepted, rejected or the call failed.
C7_OneRecordPerCall == Len(claude_api_log) = api_calls

\* C7 amended: every call of the assist service calls log_claude_api_usage exactly once,
\* whether its suggestion was accepted, rejected or the call failed, and no page without a
\* call logs anything; each of these calls writes one usage record, unless the store
\* rejects the INSERT, in which case the failure is swallowed and no record is written.
C7_OneLogCallPerCall ==
    /\ \A i \in DOMAIN assists : assists[i].logged = IF assists[i].called THEN 1 ELSE 0
    /\ log_calls = api_calls
    /\ Len(claude_api_log) = IF log_writable THEN api_calls ELSE 0

\* a failed call and a second call of the batch, both logged
C7_Witness ==
    /\ api_calls = 2
    /\ CallFailed(service)
    /\ Len(claude_api_log) = 2
    /\ \A r \in DOMAIN claude_api_log : ~claude_api_log[r].success

\* the entries of errors, of unmatched and the groups that hold page i
ErrorsOf(i) == {e \in DOMAIN results.errors : results.errors[e].page = i}

UnmatchedOf(i) == {u \in DOMAIN results.unmatched : results.unmatched[u].page = i}

GroupsOf(i) == {g \in DOMAIN invoice_groups : InGroup(g, i)}

\* C8: when the batch returns success, every page is in exactly one of the page list of
\* one matched group reported in details, one errors entry, one unmatched entry, and a
\* page for which a PO was resolved is reported under that PO.
C8_EveryPageAccounted ==
    Returned =>
        /\ Len(results.details) = Len(invoice_groups)
        /\ results.processed = Len(pdf)
        /\ \A i \in DOMAIN pdf :
              /\ Cardinality(GroupsOf(i)) + Cardinality(ErrorsOf(i))
                    + Cardinality(UnmatchedOf(i)) = 1
              /\ \A g \in GroupsOf(i) :
                    /\ Cardinality({q \in DOMAIN invoice_groups[g].pages :
                                       invoice_groups[g].pages[q] = i - 1}) = 1
                    /\ results.details[g].pages = Len(invoice_groups[g].pages)
                    /\ results.details[g].po_number = page_data[i].po_id

\* the file of the error page i
ErrorFileOf(i) == ErrorFilename(i, page_data[i].invoice_number)

\* C9: a page with an invoice number for which no strategy resolves a PO is in errors once,
\* with the invoice number and the cost extracted from it, and it is in no group, in no
\* document other than its own error file, and in no UPDATE or committed row.
C9_NoPoPageIsAnError ==
    \A i \in DOMAIN page_data :
        (page_data[i].found /\ page_data[i].po_id = 0)
        => /\ Cardinality(ErrorsOf(i)) = 1
           /\ \A e \in ErrorsOf(i) :
                 /\ results.errors[e].invoice_number = find_invoice_number(PageTexts[pdf[i]])
                 /\ results.errors[e].cost = find_total_cost(PageTexts[pdf[i]])
           /\ GroupsOf(i) = {}
           /\ UnmatchedOf(i) = {}
           /\ \A f \in uploads : InDoc(f, i) => f.name = ErrorFileOf(i)
           /\ \A u \in DOMAIN updates : updates[u].invoice_filename # ErrorFileOf(i)
           /\ \A id \in DOMAIN po_requests : po_requests[id].invoice_filename # ErrorFileOf(i)

\* an error page whose extracted cost is not the default, in a batch that committed a match
\* for another page with the same invoice number
C9_Witness ==
    /\ Returned
    /\ \E i, j \in DOMAIN page_data :
          /\ page_data[i].found /\ page_data[i].po_id = 0
          /\ page_data[i].cost # DefaultCost
          /\ ErrorsOf(i) # {}
          /\ Matched(j)
          /\ po_requests[page_data[j].po_id].invoice_number = page_data[j].invoice_number

UnmatchedPrefix == <<"U","N","M","A","T","C","H","E","D","_">>

C11_DetailsArePersisted ==
    Returned =>
        \A d \in DOMAIN results.details :
            /\ po_requests[results.details[d].po_number].invoice_filename
                  = MatchedFilename(results.details[d].po_number,
                                    results.details[d].invoice_number)
            /\ po_requests[results.details[d].po_number].invoice_number
                  = results.details[d].invoice_number
            /\ po_requests[results.details[d].po_number].invoice_cost
                  = results.details[d].cost
            /\ po_requests[results.details[d].po_number].estimated_cost
                  = results.details[d].cost
            /\ po_requests[results.details[d].po_number].match_method
                  = invoice_groups[d].data.match_method

\* the names of the documents in the upload folder
Names(files) == {f.name : f \in files}

\* an exception has escaped to the except clause and the function has returned
Aborted ==
    /\ pc \in {"done", "returned"}
    /\ ~results.success
    /\ results.error # ""
    /\ results.trace # ""

\* C12: when the write of a page's or of a group's document raises, process_bulk_pdf
\* returns success = false with the error and the trace, and no step of the run, the
\* failing one included, removes a document already written.
C12_FaultKeepsDocuments ==
    /\ [](fault => Aborted)
    /\ [][Names(uploads) \subseteq Names(uploads')]_vars

\* the run was aborted after it had written a document
C12_Witness ==
    /\ fault
    /\ Aborted
    /\ uploads # {}
    /\ pc = "returned"

(***************************************************************************)
(* Properties of two concurrent uploads                                    *)
(***************************************************************************)
\* the row of PO id holds the match described by the UPDATE u
Holds(row, u) ==
    /\ row.invoice_filename = u.invoice_filename
    /\ row.invoice_number = u.invoice_number
    /\ row.invoice_cost = u.invoice_cost
    /\ row.estimated_cost = u.estimated_cost
    /\ row.match_method = u.match_method

\* the UPDATE the first run executed last for PO id
LastUpdateOf(id) ==
    LET g == CHOOSE g \in DOMAIN invoice_groups :
                 /\ invoice_groups[g].data.po_id = id
                 /\ \A h \in DOMAIN invoice_groups :
                       invoice_groups[h].data.po_id = id => h <= g
    IN  UpdateOf(id, MatchedFilename(id, invoice_groups[g].inv_num),
                 invoice_groups[g].inv_num, invoice_groups[g].data)

\* both runs read PO id as eligible, both recorded a match for it and both committed
BothMatched(id) ==
    /\ id \in DOMAIN po_map
    /\ id \in DOMAIN other.po_map
    /\ MainCommitted
    /\ \E d \in DOMAIN results.details : results.details[d].po_number = id
    /\ other.pc = "committed"
    /\ other.updates # << >>
    /\ other.updates[1].id = id

\* C13: two runs against one store can both read a PO as eligible and both record a match
\* for it; when they have, the row of the PO holds the match of the run that committed
\* later, whatever the earlier run had committed.
C13_LaterCommitOverwrites ==
    \A id \in DOMAIN po_requests :
        BothMatched(id) =>
            IF other.after
            THEN Holds(po_requests[id], other.updates[1])
            ELSE Holds(po_requests[id], LastUpdateOf(id))

\* both runs matched PO 1012 to different invoices, and the match the first run committed
\* and reported has been overwritten by the second
C13_Witness ==
    /\ BothMatched(1012)
    /\ other.after
    /\ LastUpdateOf(1012).invoice_number # other.updates[1].invoice_number
    /\ po_requests[1012].invoice_number = other.updates[1].invoice_number

(***************************************************************************)
(* Properties of a batch, part 5: filenames, the temporary file, the loop  *)
(***************************************************************************)
\* C14: the document of a matched group is named PO, then the PO id padded to 4 digits, or
\* "S" and the padded id when the job of the PO is "service" in any case, then the
\* timestamp of the run and the invoice number.
C14_FilenameEncodesPo ==
    \A u \in DOMAIN updates :
        updates[u].invoice_filename
            = <<"P","O">>
                 \o format_po_number(updates[u].id, po_map[updates[u].id].job_name)
                 \o <<"_">> \o timestamp \o <<"_","I","N","V">>
                 \o updates[u].invoice_number \o Ext

\* C15: the temporary file is kept while process_bulk_pdf runs; once it has returned,
\* with success or with success = false, bulk_upload_invoices calls os.remove on the file
\* exactly once before it answers, and the answer is the summary process_bulk_pdf
\* returned whether or not the deletion succeeded.
C15_TempFileRemovalAttempted ==
    IF pc = "returned"
    THEN /\ request.removals = 1
         /\ request.response.returned
         /\ request.response.body = results
    ELSE /\ request.removals = 0
         /\ request.temp_pdf
         /\ ~request.response.returned

\* a batch that reported success = false, whose temporary file could not be deleted
C15_Witness ==
    /\ pc = "returned"
    /\ ~results.success
    /\ request.temp_pdf
    /\ request.response.body = results

\* the assist was called for page i and its suggestion was not taken: the call failed, or
\* it returned no match or a confidence below the threshold
AssistNotTaken(i) ==
    assists[i].called /\ (assists[i].po = 0 \/ assists[i].confidence < 60)

\* the pages were visited in document order, each counted and given its own result, and
\* nothing but a failing write has stopped the batch
VisitedInOrder ==
    /\ results.processed = Len(pdf)
    /\ Len(page_data) = Len(pdf)
    /\ Len(assists) = Len(pdf)
    /\ \A i \in DOMAIN pdf :
          page_data[i] = extract_invoice_data(pdf[i], po_map, claude_enabled, jobs, service)
    /\ ~fault => results.success

\* C16: a failed or rejected assist call does not stop the batch: the pages are visited in
\* document order, processed is the number of pages visited, only a failing write ends
\* the loop early, and the request always ends by returning the summary.
C16_BatchGoesOnAndReturns ==
    /\ []VisitedInOrder
    /\ <>(pc = "returned")

\* a batch of two pages whose first assist call failed visited both and returned success
C16_Witness ==
    /\ pc = "returned"
    /\ request.response.body.success
    /\ request.response.body.processed = 2
    /\ Len(pdf) = 2
    /\ AssistNotTaken(1)
    /\ CallFailed(assists[1].reply)

(***************************************************************************)
(* Properties of the text functions                                        *)
(***************************************************************************)
\* C17: normalize_text_for_matching is idempotent: applied to its own result it returns
\* that result, for every text, punctuation between spaces included.
C17_NormalizeIdempotent ==
    (fn.op = "normalize" /\ Len(fn.values) = 2) => fn.values[2] = fn.values[1]

\* the score is a number of [0, 1]
InUnit(score) == score.den > 0 /\ 0 <= score.num /\ score.num <= score.den

\* fuzzy_match_score has returned for every pair of the two texts
Scored == fn.op = "score" /\ fn.returned

\* the scores of the pairs lie in [0, 1] and do not depend on the order of the arguments
RangeAndSymmetry ==
    /\ \A p \in DOMAIN fn.value : InUnit(fn.value[p])
    /\ fn.value[<<1, 2>>] = fn.value[<<2, 1>>]

\* C18 as stated: the score lies in [0, 1], is symmetric, and the score of a with itself is
\* 1.0 for every non-empty a.
C18_ScoreOfSelfIsOne ==
    Scored =>
        /\ RangeAndSymmetry
        /\ \A i \in 1..2 : fn.texts[i] # << >> => fn.value[<<i, i>>] = Score(1, 1)

\* C18 amended: the score lies in [0, 1], is symmetric, and the score of a with itself is
\* 1.0 for every a whose normalized form is not empty; for a non-empty a of whitespace and
\* punctuation only, whose normalized form is empty, it is 0.0.
C18_ScoreOfNormalizableSelfIsOne ==
    Scored =>
        /\ RangeAndSymmetry
        /\ \A i \in 1..2 :
              fn.value[<<i, i>>] = IF normalize_text_for_matching(fn.texts[i]) # << >>
                                   THEN Score(1, 1) ELSE Score(0, 1)

\* 'a B' and 'Ba' were scored: each scores 1.0 with itself and the two score the same,
\* strictly between 0 and 1, in either order; so was a text of a single space
C18_Witness ==
    /\ Scored
    /\ fn.texts \in { << <<"a", " ", "B">>, <<"B", "a">> >>, << <<" ">>, <<"a">> >> }
    /\ fn.value[<<2, 2>>] = Score(1, 1)
    /\ fn.value[<<1, 2>>] = fn.value[<<2, 1>>]
    /\ fn.texts[1] = <<" ">> \/ (fn.value[<<1, 2>>].num > 0 /\ fn.value[<<1, 2>>] # Score(1, 1))

\* levenshtein_distance has returned for every pair of the three strings
Measured == fn.op = "levenshtein" /\ fn.returned

\* C19: levenshtein_distance is symmetric, non-negative, zero exactly for identical
\* strings, and d(a, c) <= d(a, b) + d(b, c).
C19_LevenshteinIsAMetric ==
    Measured =>
        /\ \A p \in DOMAIN fn.value :
              /\ fn.value[p] >= 0
              /\ fn.value[p] = fn.value[<<p[2], p[1]>>]
              /\ (fn.value[p] = 0) <=> (fn.strings[p[1]] = fn.strings[p[2]])
        /\ fn.value[<<1, 3>>] <= fn.value[<<1, 2>>] + fn.value[<<2, 3>>]

\* 'ab', 'b' and 'ba' were measured: d(ab, ba) = 2 = d(ab, b) + d(b, ba)
C19_Witness ==
    /\ Measured
    /\ fn.strings = << <<"a", "b">>, <<"b">>, <<"b", "a">> >>
    /\ fn.value[<<1, 3>>] = 2
    /\ fn.value[<<1, 2>>] = 1
    /\ fn.value[<<2, 3>>] = 1
    /\ fn.value[<<1, 1>>] = 0

\* find_job_name_in_text has returned
Searched == fn.op = "find" /\ fn.returned

\* the scores of the candidates of a search: 1.0 for the normalized job name as a substring
\* of the normalized text, 0.98 for the job name without separators as a substring of the
\* text without spaces, and the score of every window of 1 to 4 words within the tolerance
CandidateScores(text, job_name) ==
    LET text_upper    == str_upper(text)
        job_no_spaces == NoSeparators(str_strip(str_upper(job_name)))
        scores        == WindowScores(Windows(str_split(text_upper)), job_no_spaces)
    IN  (IF Contains(normalize_text_for_matching(text), normalize_text_for_matching(job_name))
         THEN {Score(1, 1)} ELSE {})
        \cup (IF Contains(RemoveAll(text_upper, " "), job_no_spaces)
              THEN {Score(98, 100)} ELSE {})
        \cup {scores[k] : k \in {m \in DOMAIN scores : scores[m].num > 0}}

\* found is reported only with a score at or above the threshold
FoundAtThreshold ==
    (Searched /\ fn.value.found) => ScoreGE(fn.value.score, fn.threshold)

\* the score reported with found is the best of the candidates
FoundBestCandidate ==
    (Searched /\ fn.value.found) =>
        \A c \in CandidateScores(fn.text, fn.job_name) : ScoreGE(fn.value.score, c)

\* without a candidate at or above the threshold the search reports not found
NotFoundOtherwise ==
    (Searched /\ \A c \in CandidateScores(fn.text, fn.job_name) : ~ScoreGE(c, fn.threshold))
        => ~fn.value.found

\* a text containing HERONSGLEN searched for 'Herons Glen' is found with a score >= 0.95
HeronsGlenFound ==
    (/\ Searched
     /\ fn.job_name = JobHeronsGlen
     /\ Contains(fn.text, <<"H","E","R","O","N","S","G","L","E","N">>))
        => fn.value.found /\ ScoreGE(fn.value.score, Score(95, 100))

\* C20: find_job_name_in_text reports found only with a score at or above the threshold,
\* the score being the best among the exact, the space-stripped and the window candidates,
\* reports not found otherwise, and finds 'Herons Glen' in a text containing HERONSGLEN
\* with a score of at least 0.95.
C20_FoundOnlyAtThreshold ==
    /\ FoundAtThreshold
    /\ FoundBestCandidate
    /\ NotFoundOtherwise
    /\ HeronsGlenFound

(***************************************************************************)
(* Properties of extract_invoice_data                                      *)
(***************************************************************************)
\* extract_invoice_data has returned
Extracted == fn.op = "extract" /\ fn.returned

\* the text it was called on
ProbedPage == ProbePages[fn.page]

\* a capture the loops accept: at least 5 characters and not date, time or page
ValidCandidate(c) == Len(c) >= 5 /\ str_lower(c) \notin FalsePositives

\* the searches of the primary patterns and then of the fallback patterns, in listed order
Searches(page) == page.inv_primary \o page.inv_fallback

\* the patterns whose search yields a valid candidate
ValidSearches(page) ==
    {i \in DOMAIN Searches(page) :
        Searches(page)[i] # << >> /\ ValidCandidate(str_strip(Searches(page)[i][1]))}

\* C21: the invoice number is the capture of the highest-priority pattern that yields a
\* valid candidate, has at least 5 characters and is not date, time or page; when no
\* pattern yields one the function returns no result and no PO is matched.
C21_InvoiceNumberByPriority ==
    Extracted =>
        IF ValidSearches(ProbedPage) = {}
        THEN fn.value.invoice_number = None /\ fn.value.data = NoData
        ELSE LET first == CHOOSE i \in ValidSearches(ProbedPage) :
                              \A j \in ValidSearches(ProbedPage) : i <= j
             IN  /\ fn.value.invoice_number = str_strip(Searches(ProbedPage)[first][1])
                 /\ ValidCandidate(fn.value.invoice_number)
                 /\ fn.value.data.found
                 /\ fn.value.data.invoice_number = fn.value.invoice_number

\* 'Invoice # 123 / Order # AB-12345': the short capture 123 was passed over for AB-12345;
\* and 'Invoice # 123 / Invoice No: Date / PO # 1012 SOMERVILLE' returned nothing although
\* the table column holds the eligible PO 1012
C21_Witness ==
    /\ Extracted
    /\ \/ /\ ProbedPage = ShortInvoicePage
          /\ fn.value.invoice_number = <<"A","B","-","1","2","3","4","5">>
          /\ fn.value.data.po_id = 1012
       \/ /\ ProbedPage = NoValidInvoicePage
          /\ fn.value.table = 1012
          /\ fn.value.data = NoData

\* digits, a point and exactly two digits
TwoDecimals(cost) ==
    /\ Len(cost) >= 4
    /\ cost[Len(cost) - 2] = "."
    /\ \A i \in DOMAIN cost : i # Len(cost) - 2 => IsDigit(cost[i])

\* the amount in hundredths a string of digits, commas and a point stands for
Hundredths(amount) == DigitsToInt(SelectSeq(amount, IsDigit), 0)

\* the labels TOTAL, Amount Due, Grand Total (1 to 3) that match somewhere in the text
MatchingLabels(page) == {i \in DOMAIN page.cost_caps : page.cost_caps[i] # << >>}

\* C22: the cost is that of the last occurrence of the first label, in the order TOTAL,
\* Amount Due, Grand Total, that matches in the text, it is 0.00 when no label matches,
\* and it is written with exactly two decimal places.
C22_CostOfFirstLabelLastOccurrence ==
    Extracted =>
        /\ TwoDecimals(fn.value.cost)
        /\ fn.value.data.found => fn.value.data.cost = fn.value.cost
        /\ IF MatchingLabels(ProbedPage) = {}
           THEN fn.value.cost = <<"0", ".", "0", "0">>
           ELSE LET label == CHOOSE i \in MatchingLabels(ProbedPage) :
                                 \A j \in MatchingLabels(ProbedPage) : i <= j
                    occurrences == ProbedPage.cost_caps[label]
                IN  Hundredths(fn.value.cost) = Hundredths(occurrences[Len(occurrences)])

\* 'Subtotal: 8.00 / TOTAL: $1,234.50 / Amount Due: 99.00' gave 1234.50, the last TOTAL
C22_Witness ==
    /\ Extracted
    /\ ProbedPage = CostPage
    /\ Len(ProbedPage.cost_caps[1]) = 2
    /\ ProbedPage.cost_caps[2] # << >>
    /\ fn.value.data.cost = <<"1","2","3","4",".","5","0">>

\* C23: the table-column strategy inspects only the first header found in the priority
\* order: the first number of that header's two lines that is an eligible PO is the
\* result, and when those lines hold none the strategy finds nothing, whatever a
\* lower-priority header holds.
C23_OnlyFirstHeader ==
    Extracted =>
        fn.value.table = IF ProbedPage.headers = << >> THEN 0
                         ELSE FirstEligible(ProbedPage.headers[1].caps, fn.po_map, 1)

\* the PO's job name without separators, in upper case
JobNoSpaces(pm, id) == NoSeparators(str_upper(pm[id].job_name))

\* the id occurs in the text and something corroborates it: the job name follows the id,
\* a word of the job name of 3 or more characters is in the text, or the id follows a
\* PO, Order or Job label
Corroborated(text, pm, id) ==
    /\ Contains(text, IntToStr(id))
    /\ \/ /\ JobNoSpaces(pm, id) # << >>
          /\ ConcatFormat(str_upper(text), IntToStr(id), JobNoSpaces(pm, id))
       \/ JobPartFound(str_upper(text), str_upper(pm[id].job_name))
       \/ PoContext(text, IntToStr(id))

\* C24: the direct search resolves the first PO of the map, in iteration order, whose id
\* occurs in the text with a corroboration, and no PO when there is none: the bare
\* occurrence of an id is no match, whatever the job name, an empty one included.
C24_DirectNeedsCorroboration ==
    Extracted =>
        LET qualifying == {id \in DOMAIN fn.po_map : Corroborated(ProbedPage.text, fn.po_map, id)}
        IN  fn.value.direct = IF qualifying = {} THEN 0
                              ELSE CHOOSE id \in qualifying : \A other_id \in qualifying : id <= other_id

\* the active job names find_job_name_in_text finds in the text at the threshold
FoundJobs(text, active_jobs, threshold) ==
    {j \in DOMAIN active_jobs : find_job_name_in_text(text, active_jobs[j], threshold).found}

\* the PO's own job name is similar, at 0.75 or more, to a job name found in the text
JobFoundFor(text, pm, id, active_jobs, threshold) ==
    \E j \in FoundJobs(text, active_jobs, threshold) :
        ScoreGE(fuzzy_match_score(pm[id].job_name, active_jobs[j]), Score(75, 100))

\* C25: a PO resolved by the fuzzy job scan, in its windowed pass (threshold 0.75) or in
\* its broader pass (0.70), is eligible, its id occurs in the text, and its own job name
\* has similarity >= 0.75 with an active job name found in the text.
C25_FuzzyScanResolvesJobPo ==
    (Extracted /\ fn.value.fuzzy # 0) =>
        /\ fn.value.data.match_method = "Fuzzy Match" => fn.value.data.po_id = fn.value.fuzzy
        /\ fn.value.fuzzy \in DOMAIN fn.po_map
        /\ Contains(ProbedPage.text, IntToStr(fn.value.fuzzy))
        /\ JobFoundFor(ProbedPage.text, fn.po_map, fn.value.fuzzy, fn.active_jobs,
                       IF fn.value.windowed # 0 THEN Score(75, 100) ELSE Score(70, 100))
        /\ fn.value.windowed # 0 => fn.value.fuzzy = fn.value.windowed

\* 'HERONZ GLEM 4016' was resolved to PO 4016 by the windowed pass and, in another call,
\* 'HERONZ GLEM X4016 X1012' by the broader pass, as the page's result
C25_Witness ==
    /\ Extracted
    /\ fn.value.data.match_method = "Fuzzy Match"
    /\ fn.value.data.po_id = 4016
    /\ \/ ProbedPage = FuzzyPage /\ fn.value.windowed = 4016
       \/ ProbedPage = BroadPage /\ fn.value.windowed = 0 /\ 1012 \in DOMAIN fn.po_map

(***************************************************************************)
(* Properties of a batch, part 3: merging, commit, later and concurrent    *)
(* batches, order of detection and assist                                  *)
(***************************************************************************)
\* C26: every page of a matched group resolved to the PO the group is recorded against:
\* the group's po_id, cost and match_method are those each of its pages produced.
C26_GroupPagesShareResolution ==
    \A g \in DOMAIN invoice_groups : \A i \in DOMAIN page_data :
        InGroup(g, i) =>
            /\ invoice_groups[g].data.po_id = page_data[i].po_id
            /\ invoice_groups[g].data.cost = page_data[i].cost
            /\ invoice_groups[g].data.match_method = page_data[i].match_method

\* no row of the store holds a match: every row is as it was before any batch
StoreUntouched == po_requests \in InitialStores

\* C27: the UPDATEs of a batch reach the store in one step, the commit that follows the
\* writing of the last group, and a batch that ends with success=false has changed no
\* row, even when documents of its groups are on disk.
C27_AllOrNothing ==
    /\ []((pc \in {"done", "returned"} /\ ~results.success) => StoreUntouched)
    /\ [][po_requests' # po_requests =>
            /\ pc = "save"
            /\ saved = Len(invoice_groups)
            /\ Len(updates) = Len(invoice_groups)
            /\ pc' = "done"
            /\ results'.success]_vars

\* a batch failed on the document of its second group: the first group's document is on
\* disk, its UPDATE was executed, and the store is untouched
C27_Witness ==
    /\ pc = "returned"
    /\ ~request.response.body.success
    /\ Len(invoice_groups) = 2
    /\ saved = 1
    /\ Len(updates) = 1
    /\ \E f \in uploads : f.name = updates[1].invoice_filename
    /\ StoreUntouched

(***************************************************************************)
(* Properties of batches run one after another                             *)
(***************************************************************************)
\* the first batch has committed a match of the PO
PersistedByMain(id) ==
    MainCommitted /\ \E i \in DOMAIN results.details : results.details[i].po_number = id

\* the invoice numbers the first batch attached to the PO
AttachedByMain(id) ==
    {results.details[i].invoice_number :
        i \in {j \in DOMAIN results.details : results.details[j].po_number = id}}

\* C28: a PO whose match a successfully completed batch has persisted, and whose invoice
\* has not been deleted since, is not in the eligible set a later batch reads, the later
\* batch executes no UPDATE on it, and its row keeps the invoice of the first batch
C28_PersistedPoNotEligibleLater ==
    \A id \in PoIds :
        (PersistedByMain(id) /\ id \notin other.deleted) =>
            /\ other.pc # "idle" => id \notin DOMAIN other.po_map
            /\ \A i \in DOMAIN other.updates : other.updates[i].id # id
            /\ po_requests[id].invoice_number \in AttachedByMain(id)

\* a later batch has committed whose page names a PO the first batch had matched
C28_Witness ==
    /\ other.pc = "committed"
    /\ \E id \in PoIds :
          /\ PersistedByMain(id)
          /\ id \notin other.deleted
          /\ ExtractPage(PageTexts[other.pdf[1]], po_map, jobs).po_id = id

(***************************************************************************)
(* Properties of two uploads made at about the same time                   *)
(***************************************************************************)
\* process_bulk_pdf of the first request is running
MainProcessing == pc \in {"start", "pages", "save"}

\* the two requests have the same temporary path
SameTempPath == other.stamp = timestamp

\* the second request saves its upload over the temporary file of the first
TempOverwritten ==
    other.pc = "idle" /\ other'.pc = "pages" /\ other'.stamp = timestamp /\ MainProcessing

\* a request removes the temporary file the other one is processing
TempDeleted ==
    \/ /\ pc = "done" /\ pc' = "returned" /\ ~request'.temp_pdf
       /\ SameTempPath /\ other.pc \in {"pages", "saved"}
    \/ /\ other.pc \in {"committed", "failed"} /\ other'.pc = "returned"
       /\ request.temp_pdf /\ ~request'.temp_pdf /\ MainProcessing

\* a document is written under the name of a document already in the upload folder
DocumentReplaced == uploads' # uploads /\ Names(uploads') = Names(uploads)

\* C29: while a batch is processed its temporary file is neither overwritten nor deleted
\* by the other batch, and no document is written under the name of a document the other
\* batch wrote, whether or not the two uploads start within the same clock second
C29_BatchesShareNoFile ==
    [][~TempOverwritten /\ ~TempDeleted /\ ~DocumentReplaced]_vars

(***************************************************************************)
(* Properties of a batch, part 4: the order of detection and matching      *)
(***************************************************************************)
\* the pages read so far on which an invoice number is detected
PagesWithInvoiceNumber ==
    {i \in DOMAIN pdf : /\ PageTexts[pdf[i]].text # << >>
                        /\ find_invoice_number(PageTexts[pdf[i]]) # None}

\* C30: for a page whose text is empty or on which no invoice number is detected the
\* assist service is not called and no usage record is written; no page leads to a call
\* when the eligible set or the list of active jobs is empty; so the calls and the usage
\* records of the batch are at most one per page with an invoice number
C30_DetectionPrecedesAssist ==
    /\ \A i \in DOMAIN assists :
          /\ i \notin PagesWithInvoiceNumber => ~assists[i].called /\ assists[i].logged = 0
          /\ (DOMAIN po_map = {} \/ jobs = << >>) => ~assists[i].called
    /\ api_calls <= Cardinality(PagesWithInvoiceNumber)
    /\ log_calls <= Cardinality(PagesWithInvoiceNumber)
    /\ Len(claude_api_log) <= Cardinality(PagesWithInvoiceNumber)

\* the assist is on and answers; one page of the batch has no invoice number and led to
\* no call, another has one and led to a call
C30_Witness ==
    /\ claude_enabled
    /\ \E i \in DOMAIN assists : i \notin PagesWithInvoiceNumber /\ ~assists[i].called
    /\ \E j \in DOMAIN assists : assists[j].called /\ assists[j].logged = 1
    /\ api_calls = 1


====
